---- MODULE Spec2Model ----
(***************************************************************************)
(* Matching / classification engine of retro-builder/muos-build.py         *)
(* (class MuOSOrganizer): normalize_name, detect_system_from_path,         *)
(* is_rom_file, read_csv, scan_rom_directories, scan_output_directory,     *)
(* find_rom_for_game, process_game and the loop of organize.               *)
(*                                                                         *)
(* Text is a sequence of one-character strings, so that the regular        *)
(* expressions, replace/lower/upper/split and the substring tests are      *)
(* computed character by character.  Dictionary keys and platform tags are *)
(* ordinary strings; Str turns a sequence of characters into one.          *)
(***************************************************************************)
EXTENDS Integers, Sequences, FiniteSets, TLC

VARIABLES
    norm,            \* normalize_name applied once and twice to one input
    det,             \* detect_system_from_path applied to one path
    phase,           \* position of organize(): "scan_src", "scan_out", "match"
    available_roms,  \* the index: key -> list of paths (organize, l.662)
    visited,         \* directory entries the scan loops have already yielded
    last,            \* the latest find_rom_for_game call and what it computed
    csv,             \* read_csv applied to the rows of one file
    run,             \* the loop of organize() over the games (l.674-675)
    scan             \* the loop of scan_rom_directories over self.rom_dirs

vars == <<norm, det, phase, available_roms, visited, last, csv, run, scan>>

None == "None"

(***************************************************************************)
(* Bounds of the model.                                                    *)
(***************************************************************************)
MaxLen == 4        \* longest input of normalize_name in SpecNorm
MaxName == 5       \* longest game name in SpecVariants
MaxParts == 2      \* most directory segments of a path in SpecDetect
MaxFiles == 3      \* most directory entries one run's scans yield
MaxGames == 2      \* most games of the list in SpecOrganize
MaxRows == 2       \* most rows of the file in SpecCsv
MaxRoots == 2      \* most scan roots in SpecScan

(***************************************************************************)
(* Characters and strings.                                                 *)
(***************************************************************************)
LowerChars == <<"a","b","c","d","e","f","g","h","i","j","k","l","m",
                "n","o","p","q","r","s","t","u","v","w","x","y","z">>
UpperChars == <<"A","B","C","D","E","F","G","H","I","J","K","L","M",
                "N","O","P","Q","R","S","T","U","V","W","X","Y","Z">>

\* str.lower() / str.upper() on one character
LowerMap == [c \in {UpperChars[i] : i \in 1..26} |->
                LowerChars[CHOOSE i \in 1..26 : UpperChars[i] = c]]
UpperMap == [c \in {LowerChars[i] : i \in 1..26} |->
                UpperChars[CHOOSE i \in 1..26 : LowerChars[i] = c]]
LowerChar(c) == IF c \in DOMAIN LowerMap THEN LowerMap[c] ELSE c
UpperChar(c) == IF c \in DOMAIN UpperMap THEN UpperMap[c] ELSE c
Lower(s) == [i \in 1..Len(s) |-> LowerChar(s[i])]
Upper(s) == [i \in 1..Len(s) |-> UpperChar(s[i])]

\* the characters str.split() and str.strip() treat as whitespace
IsSpace(c) == c \in {" ", "\n", "\t", "\r"}

RECURSIVE Str(_)
Str(cs) == IF cs = <<>> THEN "" ELSE Head(cs) \o Str(Tail(cs))

RECURSIVE Concat(_)
Concat(ss) == IF ss = <<>> THEN <<>> ELSE Head(ss) \o Concat(Tail(ss))

\* sep.join(ss)
RECURSIVE Join(_, _)
Join(ss, sep) ==
    IF ss = <<>> THEN <<>>
    ELSE IF Len(ss) = 1 THEN ss[1]
    ELSE ss[1] \o sep \o Join(Tail(ss), sep)

\* s.replace(c, r) for a one-character c
Replace(s, c, r) == Concat([i \in 1..Len(s) |-> IF s[i] = c THEN r ELSE <<s[i]>>])

\* s.split(): the maximal runs of non-whitespace characters, in order
RECURSIVE SplitAcc(_, _, _)
SplitAcc(s, cur, acc) ==
    IF s = <<>> THEN (IF cur = <<>> THEN acc ELSE Append(acc, cur))
    ELSE IF IsSpace(Head(s))
         THEN SplitAcc(Tail(s), <<>>, IF cur = <<>> THEN acc ELSE Append(acc, cur))
         ELSE SplitAcc(Tail(s), Append(cur, Head(s)), acc)
Split(s) == SplitAcc(s, <<>>, <<>>)

\* s.strip()
RECURSIVE LStrip(_)
LStrip(s) == IF s # <<>> /\ IsSpace(Head(s)) THEN LStrip(Tail(s)) ELSE s
RECURSIVE RStrip(_)
RStrip(s) ==
    IF s # <<>> /\ IsSpace(s[Len(s)]) THEN RStrip(SubSeq(s, 1, Len(s) - 1)) ELSE s
Strip(s) == RStrip(LStrip(s))

\* a in b for strings: a occurs in b as a contiguous run of characters
IsSubstring(a, b) ==
    \E i \in 0..(Len(b) - Len(a)) : SubSeq(b, i + 1, i + Len(a)) = a

Range(f) == {f[i] : i \in DOMAIN f}

(***************************************************************************)
(* normalize_name (l.978-995).                                             *)
(***************************************************************************)
\* Where the lazy pattern  open .*? close  that starts at s[1] ends: the
\* first close after s[1], provided no newline lies before it ("." does
\* not match a newline); 0 when the pattern does not match at s[1].
ClosePos(s, close) ==
    LET ends == {j \in 2..Len(s) :
                    /\ s[j] = close
                    /\ \A k \in 2..(j - 1) : s[k] # "\n"}
    IN  IF ends = {} THEN 0 ELSE CHOOSE j \in ends : \A k \in ends : j <= k

\* re.sub(r'\[.*?\]', '', name) and its two siblings (l.981-983)
RECURSIVE RemoveTags(_, _, _)
RemoveTags(s, open, close) ==
    IF s = <<>> THEN <<>>
    ELSE IF Head(s) = open /\ ClosePos(s, close) > 0
         THEN RemoveTags(SubSeq(s, ClosePos(s, close) + 1, Len(s)), open, close)
         ELSE <<Head(s)>> \o RemoveTags(Tail(s), open, close)

\* l.981-983
StripTags(name) ==
    RemoveTags(RemoveTags(RemoveTags(name, "[", "]"), "(", ")"), "{", "}")

\* l.986-988
StripSpecial(name) ==
    LET a == Replace(Replace(Replace(name, ":", <<>>), "-", <<" ">>), "_", <<" ">>)
        b == Replace(Replace(Replace(a, "'", <<>>), "&", <<"a","n","d">>), "!", <<>>)
    IN  Replace(Replace(b, ".", <<>>), ",", <<>>)

\* l.991
stop_words ==
    { <<"t","h","e">>, <<"a">>, <<"a","n">>, <<"o","f">>, <<"i","n">>,
      <<"o","n">>, <<"a","t">>, <<"t","o">>, <<"f","o","r">> }

\* l.993
NotStopWord(w) == w \notin stop_words

\* l.992-993 with the stop words dropped before the lower-casing
DropStopWordsBeforeLower(name) ==
    Strip(Lower(Join(SelectSeq(Split(name), NotStopWord), <<" ">>)))
\* l.992-995
DropStopWords(name) ==
    Strip(Join(SelectSeq(Split(Lower(name)), NotStopWord), <<" ">>))

normalize_name(name) == DropStopWords(StripSpecial(StripTags(name)))

(***************************************************************************)
(* SpecNorm: normalize_name on every string over NormAlphabet of length    *)
(* at most MaxLen, applied once and then to its own result.                *)
(***************************************************************************)
NormAlphabet == {"[", "]", "(", ")", "\n", " ", "T", "o", "x", "&", "-", ":"}

RECURSIVE StringsUpTo(_, _)
StringsUpTo(A, n) ==
    IF n = 0 THEN {<<>>}
    ELSE LET shorter == StringsUpTo(A, n - 1)
         IN  shorter \cup {Append(s, c) : s \in shorter, c \in A}

NormIdle == [pc |-> "idle", input |-> <<>>, once |-> <<>>, twice |-> <<>>]
DetIdle == [pc |-> "idle", path |-> [abs |-> FALSE, segs |-> <<>>], tag |-> None]
LastIdle == [pc |-> "idle"]
CsvIdle == [pc |-> "idle", rows |-> <<>>, games_list |-> <<>>]
RunIdle == [pc |-> "idle"]
ScanIdle == [pc |-> "idle"]
EmptyIndex == [k \in {} |-> <<>>]

InitNorm ==
    /\ norm \in {[pc |-> "start", input |-> s, once |-> <<>>, twice |-> <<>>] :
                    s \in StringsUpTo(NormAlphabet, MaxLen)}
    /\ det = DetIdle
    /\ phase = "idle"
    /\ available_roms = EmptyIndex
    /\ visited = {}
    /\ last = LastIdle
    /\ scan = ScanIdle
    /\ csv = CsvIdle
    /\ run = RunIdle

NormalizeOnce ==
    /\ norm.pc = "start"
    /\ norm' = [norm EXCEPT !.pc = "once", !.once = normalize_name(norm.input)]
    /\ UNCHANGED <<det, phase, available_roms, visited, last, csv, run, scan>>

NormalizeTwice ==
    /\ norm.pc = "once"
    /\ norm' = [norm EXCEPT !.pc = "twice", !.twice = normalize_name(norm.once)]
    /\ UNCHANGED <<det, phase, available_roms, visited, last, csv, run, scan>>

NextNorm == NormalizeOnce \/ NormalizeTwice

SpecNorm == InitNorm /\ [][NextNorm]_vars

\* C1: normalize_name is idempotent: normalizing a normalized name gives the
\* same name again, for every input (brackets, punctuation, stop-words and
\* whitespace such as newlines included).
C1_Idempotent == norm.pc = "twice" => norm.twice = norm.once

\* The inputs on which the second normalization changes the result all carry
\* a newline between an opening and a closing bracket.
C1_OnlyNewlineBreaks ==
    (norm.pc = "twice" /\ norm.twice # norm.once) =>
        \E i \in 1..Len(norm.input) : norm.input[i] = "\n"

(***************************************************************************)
(* Paths.  A path is [abs, segs]: segs are its components, the last one    *)
(* the file name; abs says whether it starts at the filesystem root.       *)
(***************************************************************************)
\* Path.parts
PathParts(p) == IF p.abs THEN <<(<<"/">>)>> \o p.segs ELSE p.segs

\* str(path)
PathStr(p) == (IF p.abs THEN <<"/">> ELSE <<>>) \o Join(p.segs, <<"/">>)

\* Path.name
PathName(p) == p.segs[Len(p.segs)]

\* Path.parent
PathParent(p) == [abs |-> p.abs, segs |-> SubSeq(p.segs, 1, Len(p.segs) - 1)]

\* name.rfind('.') counted from 1; 0 when the name has no dot
LastDot(name) ==
    LET dots == {i \in 1..Len(name) : name[i] = "."}
    IN  IF dots = {} THEN 0 ELSE CHOOSE i \in dots : \A j \in dots : j <= i

\* a suffix needs a dot that is neither the first nor the last character
HasSuffix(name) == 1 < LastDot(name) /\ LastDot(name) < Len(name)

\* Path.suffix
PathSuffix(p) ==
    LET name == PathName(p)
    IN  IF HasSuffix(name) THEN SubSeq(name, LastDot(name), Len(name)) ELSE <<>>

\* Path.stem
PathStem(p) ==
    LET name == PathName(p)
    IN  IF HasSuffix(name) THEN SubSeq(name, 1, LastDot(name) - 1) ELSE name

\* name.startswith(prefix)
StartsWith(name, prefix) ==
    Len(name) >= Len(prefix) /\ SubSeq(name, 1, Len(prefix)) = prefix

(***************************************************************************)
(* is_rom_file (l.786-804).                                                *)
(***************************************************************************)
rom_extensions ==
    { ".zip", ".7z", ".rar", ".nes", ".sfc", ".smc", ".gb", ".gbc", ".gba",
      ".md", ".smd", ".gen", ".sms", ".gg", ".pce", ".iso", ".cue", ".bin",
      ".chd", ".n64", ".z64", ".v64", ".ndd", ".cdi", ".gdi", ".pbp", ".cso",
      ".img", ".ccd", ".mdf", ".nrg", ".rom", ".32x", ".sg" }

is_rom_file(p) ==
    IF \/ StartsWith(PathName(p), <<"b","i","o","s">>)
       \/ PathName(p) = <<"P","S","X","O","N","P","S","P","6","6","0",".","b","i","n">>
    THEN FALSE
    ELSE Str(Lower(PathSuffix(p))) \in rom_extensions

(***************************************************************************)
(* detect_system_from_path (l.806-872).                                    *)
(***************************************************************************)
\* l.812: the upper-cased components, as strings
UpperParts(p) == {Str(Upper(part)) : part \in Range(PathParts(p))}

\* l.815-844 with GB tested before GBA and GBC, and without its guards
FolderTagGBFirst(path_parts) ==
    IF "ARCADE" \in path_parts THEN "ARCADE"
    ELSE IF "N64" \in path_parts \/ "NINTENDO64" \in path_parts THEN "N64"
    ELSE IF \/ "PS" \in path_parts \/ "PS1" \in path_parts
            \/ "PSX" \in path_parts \/ "PLAYSTATION" \in path_parts THEN "PS"
    ELSE IF "DC" \in path_parts \/ "DREAMCAST" \in path_parts THEN "DC"
    ELSE IF "GB" \in path_parts THEN "GB"
    ELSE IF "GBA" \in path_parts THEN "GBA"
    ELSE IF "GBC" \in path_parts THEN "GBC"
    ELSE IF "FC" \in path_parts \/ "NES" \in path_parts THEN "FC"
    ELSE IF "SFC" \in path_parts \/ "SNES" \in path_parts THEN "SFC"
    ELSE IF \/ "MD" \in path_parts \/ "GENESIS" \in path_parts
            \/ "MEGADRIVE" \in path_parts THEN "MD"
    ELSE IF "NEOGEO" \in path_parts THEN "NEOGEO"
    ELSE IF "ATARI" \in path_parts THEN "ATARI"
    ELSE IF \/ "PCE" \in path_parts \/ "PCENGINE" \in path_parts
            \/ "TURBOGRAFX" \in path_parts THEN "PCE"
    ELSE IF "MS" \in path_parts THEN "MS"
    ELSE IF "GG" \in path_parts THEN "GG"
    ELSE None

\* l.815-844 without the PlayStation folder names
FolderTagNoPS(path_parts) ==
    IF "ARCADE" \in path_parts THEN "ARCADE"
    ELSE IF "N64" \in path_parts \/ "NINTENDO64" \in path_parts THEN "N64"
    ELSE IF "DC" \in path_parts \/ "DREAMCAST" \in path_parts THEN "DC"
    ELSE IF "GBA" \in path_parts THEN "GBA"
    ELSE IF "GBC" \in path_parts THEN "GBC"
    ELSE IF /\ "GB" \in path_parts /\ "GBA" \notin path_parts
            /\ "GBC" \notin path_parts THEN "GB"
    ELSE IF "FC" \in path_parts \/ "NES" \in path_parts THEN "FC"
    ELSE IF "SFC" \in path_parts \/ "SNES" \in path_parts THEN "SFC"
    ELSE IF \/ "MD" \in path_parts \/ "GENESIS" \in path_parts
            \/ "MEGADRIVE" \in path_parts THEN "MD"
    ELSE IF "NEOGEO" \in path_parts THEN "NEOGEO"
    ELSE IF "ATARI" \in path_parts THEN "ATARI"
    ELSE IF \/ "PCE" \in path_parts \/ "PCENGINE" \in path_parts
            \/ "TURBOGRAFX" \in path_parts THEN "PCE"
    ELSE IF "MS" \in path_parts THEN "MS"
    ELSE IF "GG" \in path_parts THEN "GG"
    ELSE None
\* l.815-844: the folder-name chain; None when it falls through
FolderTag(path_parts) ==
    IF "ARCADE" \in path_parts THEN "ARCADE"
    ELSE IF "N64" \in path_parts \/ "NINTENDO64" \in path_parts THEN "N64"
    ELSE IF \/ "PS" \in path_parts \/ "PS1" \in path_parts
            \/ "PSX" \in path_parts \/ "PLAYSTATION" \in path_parts THEN "PS"
    ELSE IF "DC" \in path_parts \/ "DREAMCAST" \in path_parts THEN "DC"
    ELSE IF "GBA" \in path_parts THEN "GBA"
    ELSE IF "GBC" \in path_parts THEN "GBC"
    ELSE IF /\ "GB" \in path_parts /\ "GBA" \notin path_parts
            /\ "GBC" \notin path_parts THEN "GB"
    ELSE IF "FC" \in path_parts \/ "NES" \in path_parts THEN "FC"
    ELSE IF "SFC" \in path_parts \/ "SNES" \in path_parts THEN "SFC"
    ELSE IF \/ "MD" \in path_parts \/ "GENESIS" \in path_parts
            \/ "MEGADRIVE" \in path_parts THEN "MD"
    ELSE IF "NEOGEO" \in path_parts THEN "NEOGEO"
    ELSE IF "ATARI" \in path_parts THEN "ATARI"
    ELSE IF \/ "PCE" \in path_parts \/ "PCENGINE" \in path_parts
            \/ "TURBOGRAFX" \in path_parts THEN "PCE"
    ELSE IF "MS" \in path_parts THEN "MS"
    ELSE IF "GG" \in path_parts THEN "GG"
    ELSE None

\* the extension chain with .sms filed under the Mega Drive extensions
ExtensionTagSmsAsMd(ext, path_str) ==
    IF ext \in {".n64", ".z64", ".v64"} THEN "N64"
    ELSE IF ext = ".nes" THEN "FC"
    ELSE IF ext \in {".sfc", ".smc"} THEN "SFC"
    ELSE IF ext = ".gb" THEN "GB"
    ELSE IF ext = ".gbc" THEN "GBC"
    ELSE IF ext = ".gba" THEN "GBA"
    ELSE IF ext \in {".md", ".smd", ".gen", ".sms"} THEN "MD"
    ELSE IF ext = ".gg" THEN "GG"
    ELSE IF ext = ".pce" THEN "PCE"
    ELSE IF /\ ext \in {".chd", ".iso", ".cue", ".bin"}
            /\ IsSubstring(<<"/","P","S","/">>, path_str) THEN "PS"
    ELSE None

\* the extension chain with the disc images taken for PlayStation wherever
\* they lie
ExtensionTagDiscIsPS(ext, path_str) ==
    IF ext \in {".n64", ".z64", ".v64"} THEN "N64"
    ELSE IF ext = ".nes" THEN "FC"
    ELSE IF ext \in {".sfc", ".smc"} THEN "SFC"
    ELSE IF ext = ".gb" THEN "GB"
    ELSE IF ext = ".gbc" THEN "GBC"
    ELSE IF ext = ".gba" THEN "GBA"
    ELSE IF ext \in {".md", ".smd", ".gen"} THEN "MD"
    ELSE IF ext \in {".sms"} THEN "MS"
    ELSE IF ext = ".gg" THEN "GG"
    ELSE IF ext = ".pce" THEN "PCE"
    ELSE IF ext \in {".chd", ".iso", ".cue", ".bin"} THEN "PS"
    ELSE None
\* l.847-869: the extension chain; None when it falls through
ExtensionTag(ext, path_str) ==
    IF ext \in {".n64", ".z64", ".v64"} THEN "N64"
    ELSE IF ext = ".nes" THEN "FC"
    ELSE IF ext \in {".sfc", ".smc"} THEN "SFC"
    ELSE IF ext = ".gb" THEN "GB"
    ELSE IF ext = ".gbc" THEN "GBC"
    ELSE IF ext = ".gba" THEN "GBA"
    ELSE IF ext \in {".md", ".smd", ".gen"} THEN "MD"
    ELSE IF ext \in {".sms"} THEN "MS"
    ELSE IF ext = ".gg" THEN "GG"
    ELSE IF ext = ".pce" THEN "PCE"
    ELSE IF /\ ext \in {".chd", ".iso", ".cue", ".bin"}
            /\ IsSubstring(<<"/","P","S","/">>, path_str) THEN "PS"
    ELSE None

\* the two chains the other way round: the extension decides first
DetectExtensionFirst(rom_path) ==
    LET byExt == ExtensionTag(Str(Lower(PathSuffix(rom_path))), Upper(PathStr(rom_path)))
        byFolder == FolderTag(UpperParts(rom_path))
    IN  IF byExt # None THEN byExt
        ELSE IF byFolder # None THEN byFolder
        ELSE "UNKNOWN"

detect_system_from_path(rom_path) ==
    LET byFolder == FolderTag(UpperParts(rom_path))
        byExt == ExtensionTag(Str(Lower(PathSuffix(rom_path))), Upper(PathStr(rom_path)))
    IN  IF byFolder # None THEN byFolder
        ELSE IF byExt # None THEN byExt
        ELSE "UNKNOWN"

(***************************************************************************)
(* SpecDetect: detect_system_from_path on every path of at most MaxParts   *)
(* directories from DirPool followed by a file name from NamePool.         *)
(***************************************************************************)
DirPool ==
    { <<"a","r","c","a","d","e">>,
      <<"N","6","4">>,
      <<"p","s">>,
      <<"D","r","e","a","m","c","a","s","t">>,
      <<"G","B","A">>,
      <<"g","b","c">>,
      <<"G","B">>,
      <<"g","b">>,
      <<"n","e","s">>,
      <<"S","F","C">>,
      <<"G","e","n","e","s","i","s">>,
      <<"n","e","o","g","e","o">>,
      <<"A","t","a","r","i">>,
      <<"p","c","e">>,
      <<"M","S">>,
      <<"g","g">>,
      <<"r","o","m","s">>,
      <<"P","S","X">> }

NamePool ==
    { <<"x",".","n","e","s">>,
      <<"x",".","G","B","A">>,
      <<"x",".","b","i","n">>,
      <<"x",".","z","i","p">>,
      <<"x",".","s","m","s">>,
      <<"g","b">> }

InitDetect ==
    /\ det \in {[pc |-> "start", path |-> [abs |-> a, segs |-> Append(dirs, name)],
                 tag |-> None] :
                    a \in BOOLEAN, dirs \in StringsUpTo(DirPool, MaxParts),
                    name \in NamePool}
    /\ norm = NormIdle
    /\ phase = "idle"
    /\ available_roms = EmptyIndex
    /\ visited = {}
    /\ last = LastIdle
    /\ scan = ScanIdle
    /\ csv = CsvIdle
    /\ run = RunIdle

Detect ==
    /\ det.pc = "start"
    /\ det' = [det EXCEPT !.pc = "done", !.tag = detect_system_from_path(det.path)]
    /\ UNCHANGED <<norm, phase, available_roms, visited, last, csv, run, scan>>

NextDetect == Detect

SpecDetect == InitDetect /\ [][NextDetect]_vars

\* the folder aliases of each platform, in the order the claims give
AliasGroups ==
    << [tag |-> "ARCADE", names |-> {"ARCADE"}],
       [tag |-> "N64",    names |-> {"N64", "NINTENDO64"}],
       [tag |-> "PS",     names |-> {"PS", "PS1", "PSX", "PLAYSTATION"}],
       [tag |-> "DC",     names |-> {"DC", "DREAMCAST"}],
       [tag |-> "GBA",    names |-> {"GBA"}],
       [tag |-> "GBC",    names |-> {"GBC"}],
       [tag |-> "GB",     names |-> {"GB"}],
       [tag |-> "FC",     names |-> {"FC", "NES"}],
       [tag |-> "SFC",    names |-> {"SFC", "SNES"}],
       [tag |-> "MD",     names |-> {"MD", "GENESIS", "MEGADRIVE"}],
       [tag |-> "NEOGEO", names |-> {"NEOGEO"}],
       [tag |-> "ATARI",  names |-> {"ATARI"}],
       [tag |-> "PCE",    names |-> {"PCE", "PCENGINE", "TURBOGRAFX"}],
       [tag |-> "MS",     names |-> {"MS"}],
       [tag |-> "GG",     names |-> {"GG"}] >>

\* the alias groups that have a segment among the upper-cased parts
GroupsOf(path_parts) ==
    {i \in DOMAIN AliasGroups : AliasGroups[i].names \cap path_parts # {}}
GroupsIn(p) == LET path_parts == UpperParts(p) IN GroupsOf(path_parts)

\* the path with the extension of its file name replaced by ext
WithSuffix(p, ext) ==
    [p EXCEPT !.segs[Len(p.segs)] = PathStem(p) \o ext]

\* C9: the folder aliases are tried in the order ARCADE, N64, PS, DC, GBA,
\* GBC, GB, FC, SFC, MD, NEOGEO, ATARI, PCE, MS, GG and the first group with a
\* segment in the path gives the tag; a path with a GB and a GBA segment, in
\* any order and letter case, is never GB, and is GBA unless an earlier
\* group has a segment too.
C9_FolderPriority ==
    LET groups == GroupsIn(det.path)
    IN  (det.pc = "done" /\ groups # {}) =>
            /\ \E i \in groups :
                  /\ \A j \in groups : i <= j
                  /\ det.tag = AliasGroups[i].tag
            /\ {5, 7} \subseteq groups =>
                  /\ det.tag # "GB"
                  /\ groups \cap (1..4) = {} => det.tag = "GBA"

C9_Witness ==
    /\ det.pc = "done"
    /\ det.path.segs = << <<"g","b">>, <<"G","B","A">>, <<"x",".","z","i","p">> >>
    /\ det.tag = "GBA"

\* C10: when a segment of the path is a folder alias the tag is the
\* folder's, whatever the extension of the file; the extension decides only
\* when no segment is an alias.
C10_FolderBeatsExtension ==
    LET groups == GroupsIn(det.path)
    IN  det.pc = "done" =>
            IF groups # {}
            THEN /\ det.tag \in {AliasGroups[i].tag : i \in groups}
                 /\ \A ext \in {<<".","n","e","s">>, <<".","g","b","a">>,
                                <<".","b","i","n">>, <<".","z","i","p">>} :
                       LET other == WithSuffix(det.path, ext)
                       IN  GroupsIn(other) = groups =>
                               detect_system_from_path(other) = det.tag
            ELSE det.tag \in {"UNKNOWN",
                              ExtensionTag(Str(Lower(PathSuffix(det.path))),
                                           Upper(PathStr(det.path)))}

C10_Witness ==
    /\ det.pc = "done"
    /\ det.path.segs = << <<"G","B","A">>, <<"x",".","n","e","s">> >>
    /\ det.tag = "GBA"

(***************************************************************************)
(* SpecDetectExt: detect_system_from_path on files of every extension of   *)
(* the extension chain, in both letter cases, below at most MaxParts       *)
(* directories of ExtDirPool (one alias of a platform, one PS folder, two  *)
(* folders that are no alias).                                             *)
(***************************************************************************)
ExtDirPool ==
    { <<"r","o","m","s">>, <<"p","s","x","2">>, <<"P","S">>, <<"S","e","g","a">> }

ExtNamePool ==
    { <<"x",".","n","6","4">>, <<"x",".","z","6","4">>, <<"x",".","v","6","4">>, <<"x",".","n","e","s">>, <<"x",".","s","f","c">>, <<"x",".","s","m","c">>, <<"x",".","g","b">>,
      <<"x",".","g","b","c">>, <<"x",".","g","b","a">>, <<"x",".","m","d">>, <<"x",".","s","m","d">>, <<"x",".","g","e","n">>, <<"x",".","s","m","s">>, <<"x",".","g","g">>,
      <<"x",".","p","c","e">>, <<"x",".","c","h","d">>, <<"x",".","i","s","o">>, <<"x",".","c","u","e">>, <<"x",".","b","i","n">>, <<"x",".","z","i","p">>, <<"x",".","7","z">>,
      <<"x",".","G","B","A">>, <<"x",".","Z","6","4">>, <<"x",".","N","e","s">>, <<"x",".","I","S","O">>, <<"x",".","a",".","g","b">>, <<"x",".","g","b",".","t","x","t">>, <<".","g","b">>,
      <<"x">> }

InitDetectExt ==
    /\ det \in {[pc |-> "start", path |-> [abs |-> a, segs |-> Append(dirs, name)],
                 tag |-> None] :
                    a \in BOOLEAN, dirs \in StringsUpTo(ExtDirPool, MaxParts),
                    name \in ExtNamePool}
    /\ norm = NormIdle
    /\ phase = "idle"
    /\ available_roms = EmptyIndex
    /\ visited = {}
    /\ last = LastIdle
    /\ scan = ScanIdle
    /\ csv = CsvIdle
    /\ run = RunIdle

SpecDetectExt == InitDetectExt /\ [][NextDetect]_vars

\* the platform tags of the classifier
Tags ==
    {"ARCADE", "N64", "PS", "DC", "GBA", "GBC", "GB", "FC", "SFC", "MD",
     "NEOGEO", "ATARI", "PCE", "MS", "GG", "UNKNOWN"}

\* the extension table of the claim, lower case
ExtTable ==
    [e \in {".n64", ".z64", ".v64", ".nes", ".sfc", ".smc", ".gb", ".gbc",
            ".gba", ".md", ".smd", ".gen", ".sms", ".gg", ".pce"} |->
        CASE e \in {".n64", ".z64", ".v64"} -> "N64"
          [] e = ".nes" -> "FC"
          [] e \in {".sfc", ".smc"} -> "SFC"
          [] e = ".gb" -> "GB"
          [] e = ".gbc" -> "GBC"
          [] e = ".gba" -> "GBA"
          [] e \in {".md", ".smd", ".gen"} -> "MD"
          [] e = ".sms" -> "MS"
          [] e = ".gg" -> "GG"
          [] e = ".pce" -> "PCE"]

DiscImages == {".chd", ".iso", ".cue", ".bin"}

\* the lower-cased extension of the classified file
DetExt == Str(Lower(PathSuffix(det.path)))

\* C11: a path with no folder-alias segment gets the tag of its lower-cased
\* extension in the table (.n64/.z64/.v64 N64, .nes FC, .sfc/.smc SFC,
\* .gb GB, .gbc GBC, .gba GBA, .md/.smd/.gen MD, .sms MS, .gg GG, .pce PCE)
\* and UNKNOWN for every other extension; every path gets exactly one tag.
C11_ExtensionFallback ==
    det.pc = "done" =>
        /\ det.tag \in Tags
        /\ GroupsIn(det.path) = {} =>
               det.tag = IF DetExt \in DOMAIN ExtTable THEN ExtTable[DetExt]
                         ELSE "UNKNOWN"

C11_Witness ==
    /\ det.pc = "done"
    /\ det.path.segs = << <<"r","o","m","s">>, <<"x",".","Z","6","4">> >>
    /\ det.tag = "N64"

C11_WitnessOther ==
    /\ det.pc = "done"
    /\ det.path.segs = << <<"S","e","g","a">>, <<"x",".","s","m","s">> >>
    /\ det.tag = "MS"

\* C12: a .chd/.iso/.cue/.bin file is tagged PS by the extension chain only
\* if its path contains /PS/; a disc image with no folder alias and no /PS/
\* in its path is UNKNOWN.
C12_DiscImages ==
    LET inPS == IsSubstring(<<"/","P","S","/">>, Upper(PathStr(det.path)))
    IN  (det.pc = "done" /\ DetExt \in DiscImages) =>
            /\ (GroupsIn(det.path) = {} /\ det.tag = "PS") => inPS
            /\ (GroupsIn(det.path) = {} /\ ~inPS) => det.tag = "UNKNOWN"

C12_Witness ==
    /\ det.pc = "done"
    /\ det.path.segs = << <<"p","s","x","2">>, <<"r","o","m","s">>, <<"x",".","I","S","O">> >>
    /\ det.tag = "UNKNOWN"
(***************************************************************************)
(* The disc-image branch of the extension chain (SpecDetect).              *)
(***************************************************************************)
\* the upper-cased components of the classified path
DetParts == UpperParts(det.path)
PSSegments == {"PS", "PS1", "PSX", "PLAYSTATION"}
EarlierSegments == {"ARCADE", "N64", "NINTENDO64"}

\* C25: the extension chain never yields PS for a path the folder chain
\* left undecided, and the tag is PS exactly when the path has a PS, PS1,
\* PSX or PLAYSTATION segment and no ARCADE, N64 or NINTENDO64 segment.
C25_PSByFolderOnly ==
    det.pc = "done" =>
        /\ FolderTag(DetParts) = None =>
               ExtensionTag(DetExt, Upper(PathStr(det.path))) # "PS"
        /\ det.tag = "PS" <=>
               (DetParts \cap PSSegments # {} /\ DetParts \cap EarlierSegments = {})

\* a disc image directly under an absolute /ps: PS, by the folder chain
C25_Witness ==
    /\ det.pc = "done"
    /\ det.path = [abs |-> TRUE, segs |-> << <<"p","s">>, <<"x",".","b","i","n">> >>]
    /\ det.tag = "PS"

\* a disc image under arcade/ps: decided earlier, as ARCADE
C25_WitnessArcade ==
    /\ det.pc = "done"
    /\ det.path.segs = << <<"a","r","c","a","d","e">>, <<"p","s">>, <<"x",".","b","i","n">> >>
    /\ det.tag = "ARCADE"
(***************************************************************************)
(* find_rom_for_game (l.874-976).                                          *)
(***************************************************************************)
\* l.35-66
SYSTEM_TO_MUOS_FOLDER ==
    [label \in {"Nintendo 64", "N64", "PlayStation", "PS1", "PSX", "Dreamcast",
               "Arcade", "MAME", "FBA", "Game Boy", "Game Boy Color",
               "Game Boy Advance", "GBA", "NES", "Nintendo Entertainment System",
               "SNES", "Super Nintendo", "Genesis", "Mega Drive", "Sega Genesis",
               "Neo Geo", "Atari 2600", "TurboGrafx-16", "PC Engine",
               "Master System", "Sega Master System", "Game Gear",
               "Neo Geo Pocket", "WonderSwan", "PlayStation Portable"} |->
        CASE label \in {"Nintendo 64", "N64"} -> "N64"
          [] label \in {"PlayStation", "PS1", "PSX"} -> "PS"
          [] label = "Dreamcast" -> "DC"
          [] label \in {"Arcade", "MAME", "FBA"} -> "ARCADE"
          [] label = "Game Boy" -> "GB"
          [] label = "Game Boy Color" -> "GBC"
          [] label \in {"Game Boy Advance", "GBA"} -> "GBA"
          [] label \in {"NES", "Nintendo Entertainment System"} -> "FC"
          [] label \in {"SNES", "Super Nintendo"} -> "SFC"
          [] label \in {"Genesis", "Mega Drive", "Sega Genesis"} -> "MD"
          [] label = "Neo Geo" -> "NEOGEO"
          [] label = "Atari 2600" -> "ATARI"
          [] label \in {"TurboGrafx-16", "PC Engine"} -> "PCE"
          [] label \in {"Master System", "Sega Master System"} -> "MS"
          [] label = "Game Gear" -> "GG"
          [] label = "Neo Geo Pocket" -> "NGP"
          [] label = "WonderSwan" -> "WS"
          [] label = "PlayStation Portable" -> "PSP"]

\* l.878: SYSTEM_TO_MUOS_FOLDER.get(system, system)
MuosSystem(system) ==
    IF system \in DOMAIN SYSTEM_TO_MUOS_FOLDER
    THEN SYSTEM_TO_MUOS_FOLDER[system]
    ELSE system

\* available_roms.get(key, [])
Get(roms, key) == IF key \in DOMAIN roms THEN roms[key] ELSE <<>>

\* s.split(c) for a one-character c: the pieces between the c's, empty ones kept
RECURSIVE SplitOnAcc(_, _, _, _)
SplitOnAcc(s, c, cur, acc) ==
    IF s = <<>> THEN Append(acc, cur)
    ELSE IF Head(s) = c
         THEN SplitOnAcc(Tail(s), c, <<>>, Append(acc, cur))
         ELSE SplitOnAcc(Tail(s), c, Append(cur, Head(s)), acc)
SplitOn(s, c) == SplitOnAcc(s, c, <<>>, <<>>)

Contains(s, c) == \E i \in 1..Len(s) : s[i] = c

\* the position of the last c in s (s.rsplit(c, 1) splits there)
LastPos(s, c) == CHOOSE i \in 1..Len(s) : s[i] = c /\ \A j \in (i + 1)..Len(s) : s[j] # c

\* the variants with the original name tried first instead of last
GameVariantsOriginalFirst(game_name) ==
    LET hasSpace == Contains(game_name, " ")
        base     == IF hasSpace
                    THEN SubSeq(game_name, 1, LastPos(game_name, " ") - 1)
                    ELSE <<>>
        variants == IF hasSpace
                    THEN SubSeq(game_name, LastPos(game_name, " ") + 1, Len(game_name))
                    ELSE game_name
        alts     == SplitOn(variants, "/")
        split    == IF Contains(game_name, "/") /\ Contains(variants, "/")
                    THEN [i \in 1..Len(alts) |->
                            IF base # <<>> THEN base \o <<" ">> \o alts[i] ELSE alts[i]]
                    ELSE <<>>
    IN  <<game_name>> \o split
\* l.885-895
GameVariants(game_name) ==
    LET hasSpace == Contains(game_name, " ")
        base     == IF hasSpace
                    THEN SubSeq(game_name, 1, LastPos(game_name, " ") - 1)
                    ELSE <<>>
        variants == IF hasSpace
                    THEN SubSeq(game_name, LastPos(game_name, " ") + 1, Len(game_name))
                    ELSE game_name
        alts     == SplitOn(variants, "/")
        split    == IF Contains(game_name, "/") /\ Contains(variants, "/")
                    THEN [i \in 1..Len(alts) |->
                            IF base # <<>> THEN base \o <<" ">> \o alts[i] ELSE alts[i]]
                    ELSE <<>>
    IN  Append(split, game_name)

\* the key of the chain l.898-920 with the label itself where the code
\* falls back on the canonical tag
CandidateKeyRawLabel(system, muos_system) ==
    IF system \in {"Nintendo 64", "N64"} THEN "N64"
    ELSE IF system \in {"PlayStation", "PS1", "PSX"} THEN "PS"
    ELSE IF system \in {"Arcade", "ARCADE", "MAME"} THEN "ARCADE"
    ELSE IF system \in {"Neo Geo", "NEOGEO"} THEN "NEOGEO"
    ELSE IF system \in {"Genesis", "Mega Drive", "Sega Genesis"} THEN "MD"
    ELSE IF system \in {"NES", "Nintendo Entertainment System"} THEN "FC"
    ELSE IF system \in {"SNES", "Super Nintendo"} THEN "SFC"
    ELSE IF system \in {"Game Boy", "GB"} THEN "GB"
    ELSE IF system \in {"Game Boy Color", "GBC"} THEN "GBC"
    ELSE IF system \in {"Game Boy Advance", "GBA"} THEN "GBA"
    ELSE system

\* l.898-920: the key of the group the chain reads
CandidateKey(system, muos_system) ==
    IF system \in {"Nintendo 64", "N64"} THEN "N64"
    ELSE IF system \in {"PlayStation", "PS1", "PSX"} THEN "PS"
    ELSE IF system \in {"Arcade", "ARCADE", "MAME"} THEN "ARCADE"
    ELSE IF system \in {"Neo Geo", "NEOGEO"} THEN "NEOGEO"
    ELSE IF system \in {"Genesis", "Mega Drive", "Sega Genesis"} THEN "MD"
    ELSE IF system \in {"NES", "Nintendo Entertainment System"} THEN "FC"
    ELSE IF system \in {"SNES", "Super Nintendo"} THEN "SFC"
    ELSE IF system \in {"Game Boy", "GB"} THEN "GB"
    ELSE IF system \in {"Game Boy Color", "GBC"} THEN "GBC"
    ELSE IF system \in {"Game Boy Advance", "GBA"} THEN "GBA"
    ELSE muos_system

\* the group of the key followed by the files no folder or extension placed
CandidatesWithUnknown(system, muos_system, roms) ==
    Get(roms, CandidateKey(system, muos_system)) \o Get(roms, "UNKNOWN")
\* l.898-920: candidates.extend(available_roms.get(key, []))
Candidates(system, muos_system, roms) == Get(roms, CandidateKey(system, muos_system))

\* a lookup that files an empty list under a key the index lacks
\* (dict.setdefault)
IndexAfterSetDefault(roms, key) ==
    [k \in DOMAIN roms \cup {key} |-> IF k \in DOMAIN roms THEN roms[k] ELSE <<>>]

\* the index after available_roms.get(key, []): dict.get adds no key
IndexAfterGet(roms, key) == roms

\* Scores are fractions <<numerator, denominator>>.  The floats the code
\* compares are 1.0, 0.8, 0.7, 0.5 and quotients of two small word counts;
\* correctly rounded division maps equal fractions to equal floats and keeps
\* the order of distinct ones, so comparing the fractions gives the code's
\* comparisons.
Zero == <<0, 1>>
One == <<1, 1>>
Half == <<1, 2>>
Gt(a, b) == a[1] * b[2] > b[1] * a[2]
Ge(a, b) == a[1] * b[2] >= b[1] * a[2]
Eq(a, b) == a[1] * b[2] = b[1] * a[2]
Max(m, n) == IF m >= n THEN m ELSE n

\* l.956-962 with the union of the word sets where the code intersects them
WordScoreUnion(game_words, rom_words) ==
    IF game_words # {} /\ rom_words # {}
    THEN LET common_words == game_words \cup rom_words
         IN  IF common_words # {}
             THEN <<Cardinality(common_words),
                    Max(Cardinality(game_words), Cardinality(rom_words))>>
             ELSE Zero
    ELSE Zero

\* l.956-962
WordScore(game_words, rom_words) ==
    IF game_words # {} /\ rom_words # {}
    THEN LET common_words == game_words \cap rom_words
         IN  IF common_words # {}
             THEN <<Cardinality(common_words),
                    Max(Cardinality(game_words), Cardinality(rom_words))>>
             ELSE Zero
    ELSE Zero

\* l.944-962 with an empty title never matching anything
MatchScoreEmptyIsZero(game_normalized, rom_normalized) ==
    IF game_normalized = <<>> \/ rom_normalized = <<>> THEN Zero
    ELSE IF game_normalized = rom_normalized THEN One
    ELSE IF IsSubstring(game_normalized, rom_normalized) THEN <<4, 5>>
    ELSE IF IsSubstring(rom_normalized, game_normalized) THEN <<7, 10>>
    ELSE WordScore(Range(Split(game_normalized)), Range(Split(rom_normalized)))
\* l.944-962 with the scores of the two containment tiers exchanged
MatchScoreExchanged(game_normalized, rom_normalized) ==
    IF game_normalized = rom_normalized THEN One
    ELSE IF IsSubstring(game_normalized, rom_normalized) THEN <<7, 10>>
    ELSE IF IsSubstring(rom_normalized, game_normalized) THEN <<4, 5>>
    ELSE WordScore(Range(Split(game_normalized)), Range(Split(rom_normalized)))

\* l.944-962 with the containment test tried before the equality test
MatchScoreContainsFirst(game_normalized, rom_normalized) ==
    IF IsSubstring(game_normalized, rom_normalized) THEN <<4, 5>>
    ELSE IF game_normalized = rom_normalized THEN One
    ELSE IF IsSubstring(rom_normalized, game_normalized) THEN <<7, 10>>
    ELSE WordScore(Range(Split(game_normalized)), Range(Split(rom_normalized)))

\* l.944-962
MatchScore(game_normalized, rom_normalized) ==
    IF game_normalized = rom_normalized THEN One
    ELSE IF IsSubstring(game_normalized, rom_normalized) THEN <<4, 5>>
    ELSE IF IsSubstring(rom_normalized, game_normalized) THEN <<7, 10>>
    ELSE WordScore(Range(Split(game_normalized)), Range(Split(rom_normalized)))

\* l.937 without the test: every candidate of the group is scored
SkipNothing(detected_system, muos_system) == FALSE

\* l.937 with the platform test inverted: the files of the target platform
\* are the ones skipped
SkipSamePlatform(detected_system, muos_system) ==
    detected_system = muos_system /\ detected_system # "UNKNOWN"
\* l.937: the candidate is skipped
Skip(detected_system, muos_system) ==
    detected_system # muos_system /\ detected_system # "UNKNOWN"

\* l.973 with > where the code has >=
AcceptStrict(best_match_set, best_score) == best_match_set /\ Gt(best_score, Half)

\* l.973: best_match and best_score >= 0.5
Accept(best_match_set, best_score) == best_match_set /\ Ge(best_score, Half)

\* l.964 with >= where the code has >: a later equal score replaces the best
ImprovesOrTies(score, best_score) == Ge(score, best_score)

\* l.964: score > best_score
Improves(score, best_score) == Gt(score, best_score)

\* l.969: score >= 1.0
IsExact(score) == Ge(score, One)

NoFile == [abs |-> FALSE, segs |-> <<>>]

\* l.926-976: the two nested loops, flattened: step k handles variant
\* (k-1) \div n + 1 and candidate (k-1) % n + 1 of n candidates.  The result
\* is the returned file (NoFile for None), best_score at the return, and the
\* log of the pairs that were scored.
RECURSIVE ScoreLoop(_, _, _, _, _, _, _)
ScoreLoop(game_variants, candidates, muos_system, k, best_match, best_score, log) ==
    LET n == Len(candidates)
    IN  IF k > Len(game_variants) * n
        THEN [file |-> IF Accept(best_match # NoFile, best_score)
                       THEN best_match ELSE NoFile,
              best_score |-> best_score, exact |-> FALSE, log |-> log]
        ELSE LET vi == ((k - 1) \div n) + 1
                 ci == ((k - 1) % n) + 1
                 rom_path == candidates[ci]
                 game_normalized == normalize_name(game_variants[vi])
                 detected_system == detect_system_from_path(rom_path)
             IN  IF Skip(detected_system, muos_system)
                 THEN ScoreLoop(game_variants, candidates, muos_system, k + 1,
                                best_match, best_score, log)
                 ELSE LET rom_normalized == normalize_name(PathStem(rom_path))
                          score == MatchScore(game_normalized, rom_normalized)
                          better == Improves(score, best_score)
                          new_match == IF better THEN rom_path ELSE best_match
                          new_score == IF better THEN score ELSE best_score
                          entry == [variant |-> vi, candidate |-> ci,
                                    game_normalized |-> game_normalized,
                                    rom_normalized |-> rom_normalized,
                                    score |-> score]
                      IN  IF IsExact(score)
                          THEN [file |-> new_match, best_score |-> new_score,
                                exact |-> TRUE, log |-> Append(log, entry)]
                          ELSE ScoreLoop(game_variants, candidates, muos_system,
                                         k + 1, new_match, new_score,
                                         Append(log, entry))

\* l.874-976: the result of the loops together with the variants the call
\* generated (l.885-895) and the index as the call leaves it
find_rom_for_game(game_name, system, roms) ==
    LET muos_system == MuosSystem(system)
        game_variants == GameVariants(game_name)
        candidates == Candidates(system, muos_system, roms)
        found == IF candidates = <<>>
                 THEN [file |-> NoFile, best_score |-> Zero, exact |-> FALSE,
                       log |-> <<>>]
                 ELSE ScoreLoop(game_variants, candidates, muos_system, 1,
                                NoFile, Zero, <<>>)
    IN  [file |-> found.file, best_score |-> found.best_score,
         exact |-> found.exact, log |-> found.log,
         game_variants |-> game_variants,
         roms |-> IndexAfterGet(roms, CandidateKey(system, muos_system))]

(***************************************************************************)
(* organize (l.646-675): the scans that build the index, then the          *)
(* find_rom_for_game calls made for the games of the list.                 *)
(***************************************************************************)
\* the scan root (self.rom_dirs) and the Roms directory of the output
RomDir == [abs |-> FALSE, segs |-> << <<"r","o","m","s">> >>]
OutputRoms == [abs |-> FALSE, segs |-> << <<"o","u","t">>, <<"R","o","m","s">> >>]

\* what rom_dir.rglob('*') can yield, each entry relative to the root
SourceEntries ==
    { [rel |-> << <<"G","B">>, <<"p"," ","r"," ","(","U",")",".","g","b">> >>, is_file |-> TRUE],
      [rel |-> << <<"G","B">>, <<"p"," ","b",".","g","b">> >>, is_file |-> TRUE],
      [rel |-> << <<"p"," ","r",".","z","i","p">> >>, is_file |-> TRUE],
      [rel |-> << <<"s","n","e","s">>, <<"p"," ","r",".","s","f","c">> >>, is_file |-> TRUE],
      [rel |-> << <<"G","B">>, <<"p"," ","m"," ","s",".","g","b">> >>, is_file |-> TRUE],
      [rel |-> << <<"G","B">>, <<"p",".","g","b">> >>, is_file |-> TRUE],
      [rel |-> << <<"a">>, <<"b">>, <<"c">>, <<"d">>, <<"e">>, <<"f">>, <<"p",".","g","b">> >>,
       is_file |-> TRUE],
      [rel |-> << <<"G","B">> >>, is_file |-> FALSE] }

\* what the two iterdir() loops of scan_output_directory can yield: a
\* system directory (is_file FALSE) or an entry inside one
OutputEntries ==
    { [rel |-> << <<"P","S","P">>, <<"p"," ","r",".","i","s","o">> >>, is_file |-> TRUE],
      [rel |-> << <<"P","S","P">>, <<"p"," ","r",".","g","b">> >>, is_file |-> TRUE],
      [rel |-> << <<"G","B">>, <<"p",".","g","b">> >>, is_file |-> TRUE],
      [rel |-> << <<"W","S">> >>, is_file |-> FALSE] }

\* the game names and system labels of the rows read_csv returns
GameNames ==
    { <<"p"," ","b","/","r">>,
      <<"p"," ","r">>,
      <<"T","h","e"," ","p">>,
      <<"p"," ","m">>,
      <<"m"," ","x">>,
      <<"r"," ","p">>,
      <<"p"," ","r",":"," ","s">> }

SystemLabels ==
    {"Game Boy", "GB", "SNES", "PlayStation Portable", "WonderSwan", "Sega 32X"}

\* root / rel
Under(root, rel) == [abs |-> root.abs, segs |-> root.segs \o rel]

\* the file put at the head of its list instead of appended
IndexedAtFront(roms, key, file) ==
    [k \in DOMAIN roms \cup {key} |-> IF k = key THEN <<file>> \o Get(roms, k) ELSE roms[k]]
\* roms_by_system[key].append(file), creating the list first when needed
Indexed(roms, key, file) ==
    [k \in DOMAIN roms \cup {key} |-> IF k = key THEN Append(Get(roms, k), file) ELSE roms[k]]

\* if key not in roms_by_system: roms_by_system[key] = []
WithKey(roms, key) == [k \in DOMAIN roms \cup {key} |-> Get(roms, k)]

\* l.765 with the limit one level lower
TooDeepAtSix(rel) == Len(rel) > 5
\* l.762-766: the entry lies too deep below its root
TooDeep(rel) == Len(rel) > 6

Init ==
    /\ phase = "scan_src"
    /\ available_roms = EmptyIndex
    /\ visited = {}
    /\ last = LastIdle
    /\ scan = ScanIdle
    /\ csv = CsvIdle
    /\ run = RunIdle
    /\ norm = NormIdle
    /\ det = DetIdle

\* one iteration of the loop of scan_rom_directories (l.761-776)
ScanRomEntry(e) ==
    /\ phase = "scan_src"
    /\ [root |-> RomDir, entry |-> e] \notin visited
    /\ Cardinality(visited) < MaxFiles
    /\ visited' = visited \cup {[root |-> RomDir, entry |-> e]}
    /\ LET rom_file == Under(RomDir, e.rel)
       IN  available_roms' =
               IF ~TooDeep(e.rel) /\ e.is_file /\ is_rom_file(rom_file)
               THEN Indexed(available_roms, detect_system_from_path(rom_file), rom_file)
               ELSE available_roms
    /\ UNCHANGED <<phase, last, norm, det, csv, run, scan>>

\* scan_rom_directories returns; scan_output_directory starts (l.662-665)
EndSourceScan ==
    /\ phase = "scan_src"
    /\ phase' = "scan_out"
    /\ UNCHANGED <<available_roms, visited, last, norm, det, csv, run, scan>>

\* one iteration of the loops of scan_output_directory (l.734-745): the
\* system directory gets its key, a ROM file in it is appended under it
ScanOutputEntry(e) ==
    /\ phase = "scan_out"
    /\ [root |-> OutputRoms, entry |-> e] \notin visited
    /\ Cardinality(visited) < MaxFiles
    /\ visited' = visited \cup {[root |-> OutputRoms, entry |-> e]}
    /\ LET system_name == Str(e.rel[1])
           rom_file == Under(OutputRoms, e.rel)
       IN  available_roms' =
               IF Len(e.rel) = 2 /\ e.is_file /\ is_rom_file(rom_file)
               THEN Indexed(available_roms, system_name, rom_file)
               ELSE WithKey(available_roms, system_name)
    /\ UNCHANGED <<phase, last, norm, det, csv, run, scan>>

\* scan_output_directory returns; the loop over the games starts (l.674)
EndOutputScan ==
    /\ phase = "scan_out"
    /\ phase' = "match"
    /\ UNCHANGED <<available_roms, visited, last, norm, det, csv, run, scan>>

\* find_rom_for_game called for one game of the list (l.1112)
FindRom(game_name, system) ==
    /\ phase = "match"
    /\ last.pc = "idle"
    /\ LET result == find_rom_for_game(game_name, system, available_roms)
       IN  /\ last' = [pc |-> "called", game_name |-> game_name,
                       system |-> system, result |-> result]
           /\ available_roms' = result.roms
    /\ UNCHANGED <<phase, visited, norm, det, csv, run, scan>>

\* the loop over the games goes on to the next game (l.674)
NextGame ==
    /\ phase = "match"
    /\ last.pc = "called"
    /\ last' = LastIdle
    /\ UNCHANGED <<phase, available_roms, visited, norm, det, csv, run, scan>>

Next ==
    \/ \E e \in SourceEntries : ScanRomEntry(e)
    \/ EndSourceScan
    \/ \E e \in OutputEntries : ScanOutputEntry(e)
    \/ EndOutputScan
    \/ \E game_name \in GameNames, system \in SystemLabels : FindRom(game_name, system)
    \/ NextGame

Spec == Init /\ [][Next]_vars

(***************************************************************************)
(* The latest call, as the claims about find_rom_for_game speak of it.     *)
(***************************************************************************)
CallDone == phase = "match" /\ last.pc = "called"
CallTarget == MuosSystem(last.system)
CallVariants == GameVariants(last.game_name)
CallCandidates == Candidates(last.system, CallTarget, available_roms)
IsEligible(f) == ~Skip(detect_system_from_path(f), CallTarget)
\* the candidates the loop does not skip, in index order
CallEligible == SelectSeq(CallCandidates, IsEligible)
PairScore(variant, f) ==
    MatchScore(normalize_name(variant), normalize_name(PathStem(f)))
\* the normalized variants and the normalized stems of the eligible candidates
CallQueries == LET vs == CallVariants IN [i \in DOMAIN vs |-> normalize_name(vs[i])]
CallStems == LET el == CallEligible IN [j \in DOMAIN el |-> normalize_name(PathStem(el[j]))]
\* the score of every (variant, eligible candidate) pair, by indices
CallScores ==
    LET qs == CallQueries
        cs == CallStems
    IN  [pr \in (DOMAIN qs) \X (DOMAIN cs) |-> MatchScore(qs[pr[1]], cs[pr[2]])]
\* the pairs whose score is the greatest of scores
MaxPairs(scores) ==
    {pr \in DOMAIN scores : \A other \in DOMAIN scores : Ge(scores[pr], scores[other])}
\* pr comes before other in the order of the loops: variants outside
Before(pr, other) ==
    pr[1] < other[1] \/ (pr[1] = other[1] /\ pr[2] <= other[2])

\* C2: a returned file is classified as the entry's canonical tag or as
\* UNKNOWN, never as another platform, even when a file of another platform
\* in the group has exactly the title asked for.
C2_PlatformExclusive ==
    (CallDone /\ last.result.file # NoFile) =>
        detect_system_from_path(last.result.file) \in {CallTarget, "UNKNOWN"}

C2_Witness ==
    /\ CallDone
    /\ last.result.file # NoFile
    /\ detect_system_from_path(last.result.file) = "UNKNOWN"
    /\ \E i \in 1..Len(CallCandidates) :
          /\ detect_system_from_path(CallCandidates[i]) \notin {CallTarget, "UNKNOWN"}
          /\ normalize_name(PathStem(CallCandidates[i])) = normalize_name(last.game_name)

\* C3: a file the scan put under UNKNOWN is eligible for an entry of any
\* target platform: it is among the files the call scores, like a file of
\* the entry's own platform.
C3_UnknownEligible ==
    (CallDone /\ "UNKNOWN" \in DOMAIN available_roms) =>
        Range(available_roms["UNKNOWN"]) \subseteq Range(CallEligible)

\* C4: a file is returned exactly when the greatest score over the
\* (variant, eligible candidate) pairs is at least 0.5.
C4_Threshold ==
    CallDone =>
        LET scores == CallScores
        IN  last.result.file # NoFile <=> \E pr \in DOMAIN scores : Ge(scores[pr], Half)

C4_Witness ==
    /\ CallDone
    /\ last.result.file # NoFile
    /\ LET scores == CallScores
       IN  \E pr \in MaxPairs(scores) : Eq(scores[pr], Half)

\* a call whose greatest score is positive and below 0.5 returns no file
C4_WitnessBelow ==
    /\ CallDone
    /\ last.result.file = NoFile
    /\ LET scores == CallScores
       IN  \E pr \in MaxPairs(scores) : Gt(scores[pr], Zero)

\* C5: when the normalized stem of an eligible candidate equals the
\* normalized form of a variant, a file is returned and it scores 1.0
\* against some variant, whatever other candidates the index holds.
C5_ExactWins ==
    CallDone =>
        LET qs == CallQueries
            cs == CallStems
        IN  (\E i \in DOMAIN qs, j \in DOMAIN cs : qs[i] = cs[j]) =>
                /\ last.result.file # NoFile
                /\ \E i \in DOMAIN qs :
                      Eq(MatchScore(qs[i], normalize_name(PathStem(last.result.file))), One)

C5_Witness ==
    /\ CallDone
    /\ Len(CallEligible) >= 2
    /\ Gt(CallScores[<<1, 1>>], Zero)
    /\ ~Eq(CallScores[<<1, 1>>], One)
    /\ last.result.file # CallEligible[1]
    /\ normalize_name(PathStem(last.result.file)) = normalize_name(last.game_name)

\* the eligible candidates of the pairs top, as positions in CallEligible
CandidatesOf(top) == {pr[2] : pr \in top}

\* C6 as claimed: among several eligible candidates with the same greatest
\* score (over all variants) the first in index order is returned.
C6_FirstInIndexWins ==
    (CallDone /\ last.result.file # NoFile) =>
        LET tied == CandidatesOf(MaxPairs(CallScores))
        IN  Cardinality(tied) >= 2 =>
                \E j \in tied :
                    /\ \A k \in tied : j <= k
                    /\ last.result.file = CallEligible[j]

\* C6 as amended: a returned file is the candidate of the first (variant,
\* candidate) pair, variants in the order generated and candidates in index
\* order inside each variant, that reaches the greatest score; for a name
\* with one variant that is the first such candidate in index order.
C6_FirstPairWins ==
    (CallDone /\ last.result.file # NoFile) =>
        LET top == MaxPairs(CallScores)
            tied == CandidatesOf(top)
        IN  /\ \E pr \in top :
                  /\ \A other \in top : Before(pr, other)
                  /\ last.result.file = CallEligible[pr[2]]
            /\ Len(CallVariants) = 1 =>
                  \E j \in tied :
                      /\ \A k \in tied : j <= k
                      /\ last.result.file = CallEligible[j]

C6_Witness ==
    /\ CallDone
    /\ Len(CallVariants) > 1
    /\ last.result.file # NoFile
    /\ LET tied == CandidatesOf(MaxPairs(CallScores))
       IN  /\ Cardinality(tied) >= 2
           /\ \E j \in tied :
                 /\ \A k \in tied : j <= k
                 /\ last.result.file # CallEligible[j]

\* C7: every score computed in a call lies in [0,1], and the words two
\* titles share are never more than the larger of the two word sets.
C7_ScoreBounds ==
    CallDone =>
        \A i \in 1..Len(last.result.log) :
            LET e == last.result.log[i]
                game_words == Range(Split(e.game_normalized))
                rom_words == Range(Split(e.rom_normalized))
            IN  /\ e.score[2] > 0
                /\ Ge(e.score, Zero)
                /\ Ge(One, e.score)
                /\ Cardinality(game_words \cap rom_words)
                     <= Max(Cardinality(game_words), Cardinality(rom_words))

C7_Witness ==
    /\ CallDone
    /\ \E i, j \in 1..Len(last.result.log) :
          /\ Gt(last.result.log[i].score, Zero)
          /\ Gt(Half, last.result.log[i].score)
          /\ Eq(last.result.log[j].score, One)
          /\ last.result.log[j].game_normalized # last.result.log[j].rom_normalized

\* the score the tiers give, tier by tier
TierScore(q, c) ==
    LET qw == Range(Split(q))
        cw == Range(Split(c))
    IN  CASE q = c -> One
          [] q # c /\ IsSubstring(q, c) -> <<4, 5>>
          [] q # c /\ ~IsSubstring(q, c) /\ IsSubstring(c, q) -> <<7, 10>>
          [] OTHER -> IF qw # {} /\ cw # {}
                      THEN <<Cardinality(qw \cap cw), Max(Cardinality(qw), Cardinality(cw))>>
                      ELSE Zero

\* C8: every score computed in a call is the score of the first tier that
\* applies: 1.0 for equal titles, else 0.8 when the query is contained in
\* the candidate, else 0.7 when the candidate is contained in the query,
\* else the share of common words (0 when a word set is empty).
C8_Tiered ==
    CallDone =>
        \A i \in 1..Len(last.result.log) :
            LET e == last.result.log[i]
            IN  /\ Eq(e.score, TierScore(e.game_normalized, e.rom_normalized))
                /\ e.game_normalized = normalize_name(CallVariants[e.variant])
                /\ e.rom_normalized = normalize_name(PathStem(CallCandidates[e.candidate]))

C8_Witness ==
    /\ CallDone
    /\ \E i, j, k \in 1..Len(last.result.log) :
          /\ last.result.log[i].score = <<4, 5>>
          /\ last.result.log[j].score = <<7, 10>>
          /\ last.result.log[k].score = <<1, 2>>

(***************************************************************************)
(* SpecLookup: find_rom_for_game called with every system label on indexes *)
(* whose groups hold one file each, p.zip in the output directory of the   *)
(* group's key, so that the returned file tells which group was read.      *)
(***************************************************************************)
LookupKeys ==
    { <<"A","R","C","A","D","E">>, <<"N","6","4">>, <<"P","S">>, <<"D","C">>, <<"G","B","A">>, <<"G","B","C">>, <<"G","B">>, <<"F","C">>, <<"S","F","C">>,
      <<"M","D">>, <<"N","E","O","G","E","O">>, <<"A","T","A","R","I">>, <<"P","C","E">>, <<"M","S">>, <<"G","G">>, <<"N","G","P">>, <<"W","S">>, <<"P","S","P">>,
      <<"N","E","S">>, <<"G","a","m","e"," ","B","o","y">>, <<"D","r","e","a","m","c","a","s","t">>, <<"S","e","g","a"," ","3","2","X">> }

\* the index scan_output_directory builds from the system directories keys,
\* each holding the file p.zip
LookupIndex(keys) ==
    [k \in {Str(c) : c \in keys} |->
        LET c == CHOOSE c \in keys : Str(c) = k
        IN  << Under(OutputRoms, <<c, <<"p",".","z","i","p">>>>) >>]

LookupIndexes ==
    {LookupIndex(LookupKeys)}
        \cup {LookupIndex({c}) : c \in LookupKeys}
        \cup {LookupIndex(LookupKeys \ {c}) : c \in LookupKeys}

\* the labels of the table, those of the chain l.898-920, and labels of
\* neither
LookupLabels ==
    DOMAIN SYSTEM_TO_MUOS_FOLDER
        \cup {"ARCADE", "NEOGEO", "GB", "GBC", "Sega 32X", "PS", "Famicom"}

InitLookup ==
    /\ available_roms \in LookupIndexes
    /\ phase = "match"
    /\ visited = {}
    /\ last = LastIdle
    /\ scan = ScanIdle
    /\ csv = CsvIdle
    /\ run = RunIdle
    /\ norm = NormIdle
    /\ det = DetIdle

NextLookup ==
    \/ \E system \in LookupLabels : FindRom(<<"p">>, system)
    \/ NextGame

SpecLookup == InitLookup /\ [][NextLookup]_vars

\* C13: for every system label, in the alias table or not, the candidates
\* are read from the group keyed by SYSTEM_TO_MUOS_FOLDER.get(label, label):
\* the chain of find_rom_for_game and the table never disagree, and a label
\* the table lacks is its own key.
C13_CanonicalGroup ==
    CallDone =>
        LET key == IF last.system \in DOMAIN SYSTEM_TO_MUOS_FOLDER
                   THEN SYSTEM_TO_MUOS_FOLDER[last.system]
                   ELSE last.system
        IN  /\ CallCandidates = Get(available_roms, key)
            /\ last.result.file = IF key \in DOMAIN available_roms
                                  THEN available_roms[key][1]
                                  ELSE NoFile

C13_Witness ==
    /\ CallDone
    /\ last.system = "Dreamcast"
    /\ "Dreamcast" \in DOMAIN available_roms
    /\ last.result.file = Under(OutputRoms, <<<<"D","C">>, <<"p",".","z","i","p">>>>)

C13_WitnessUnmapped ==
    /\ CallDone
    /\ last.system = "Sega 32X"
    /\ last.result.file = Under(OutputRoms, <<<<"S","e","g","a"," ","3","2","X">>, <<"p",".","z","i","p">>>>)
(***************************************************************************)
(* SpecVariants: find_rom_for_game called, on an empty index, with every   *)
(* name of 1..MaxName characters over NameAlphabet.                        *)
(***************************************************************************)
NameAlphabet == {"p", "b", " ", "/"}

VariantNames == StringsUpTo(NameAlphabet, MaxName) \ {<<>>}

InitVariants ==
    /\ available_roms = EmptyIndex
    /\ phase = "match"
    /\ visited = {}
    /\ last = LastIdle
    /\ scan = ScanIdle
    /\ csv = CsvIdle
    /\ run = RunIdle
    /\ norm = NormIdle
    /\ det = DetIdle

NextVariants ==
    \/ \E game_name \in VariantNames : FindRom(game_name, "GB")
    \/ NextGame

SpecVariants == InitVariants /\ [][NextVariants]_vars

\* the position of the last space of s, 0 when s has none
LastSpace(s) ==
    IF Contains(s, " ")
    THEN CHOOSE i \in 1..Len(s) : s[i] = " " /\ \A j \in (i + 1)..Len(s) : s[j] # " "
    ELSE 0
\* the last space-separated token of s and the text before its last space
LastToken(s) == SubSeq(s, LastSpace(s) + 1, Len(s))
Prefix(s) == SubSeq(s, 1, LastSpace(s) - 1)

\* C14 as stated: when the last space-separated token of the name contains
\* '/', the variants are prefix + ' ' + alternative for each slash
\* alternative from left to right (the alternative alone when the name has
\* no space) followed by the original name; the original is always in the
\* list and last; a name with no '/' in its last token yields only itself.
C14_VariantsAsStated ==
    CallDone =>
        LET name == last.game_name
            vs == last.result.game_variants
            alts == SplitOn(LastToken(name), "/")
        IN  /\ vs[Len(vs)] = name
            /\ IF Contains(LastToken(name), "/")
               THEN /\ Len(vs) = Len(alts) + 1
                    /\ \A i \in 1..Len(alts) :
                          vs[i] = IF Contains(name, " ")
                                  THEN Prefix(name) \o <<" ">> \o alts[i]
                                  ELSE alts[i]
               ELSE vs = <<name>>

\* C14, amended: as stated, but the alternative stands alone whenever the
\* text before the last space is empty, which is the case of a name with no
\* space and of a name whose last space is its first character.
C14_Variants ==
    CallDone =>
        LET name == last.game_name
            vs == last.result.game_variants
            alts == SplitOn(LastToken(name), "/")
        IN  /\ vs[Len(vs)] = name
            /\ IF Contains(LastToken(name), "/")
               THEN /\ Len(vs) = Len(alts) + 1
                    /\ \A i \in 1..Len(alts) :
                          vs[i] = IF Prefix(name) # <<>>
                                  THEN Prefix(name) \o <<" ">> \o alts[i]
                                  ELSE alts[i]
               ELSE vs = <<name>>

C14_Witness ==
    /\ CallDone
    /\ last.game_name = <<" ","b","/","p">>
    /\ last.result.game_variants = << <<"b">>, <<"p">>, <<" ","b","/","p">> >>

C14_WitnessPrefix ==
    /\ CallDone
    /\ last.game_name = <<"p"," ","b","/","p">>
    /\ last.result.game_variants = << <<"p"," ","b">>, <<"p"," ","p">>, <<"p"," ","b","/","p">> >>
\* C15: when the target group is absent from the index, or empty, or holds
\* only files of other platforms, find_rom_for_game returns None; it scores
\* nothing and raises nothing.
C15_NoCandidateIsNone ==
    CallDone =>
        LET key == MuosSystem(last.system)
            group == Get(available_roms, key)
        IN  (\A i \in DOMAIN group :
                 detect_system_from_path(group[i]) \notin {key, "UNKNOWN"}) =>
                /\ last.result.file = NoFile
                /\ last.result.log = <<>>

\* a group that holds only a file of another platform with the title asked for
C15_Witness ==
    /\ CallDone
    /\ last.system = "PlayStation Portable"
    /\ last.game_name = <<"p"," ","r">>
    /\ Get(available_roms, "PSP") = << Under(OutputRoms, <<<<"P","S","P">>, <<"p"," ","r",".","g","b">>>>) >>
    /\ last.result.file = NoFile

\* a group that exists and is empty
C15_WitnessEmpty ==
    /\ CallDone
    /\ last.system = "WonderSwan"
    /\ "WS" \in DOMAIN available_roms
    /\ last.result.file = NoFile

\* a group the index lacks
C15_WitnessAbsent ==
    /\ CallDone
    /\ last.system = "Sega 32X"
    /\ "GB" \in DOMAIN available_roms
    /\ last.result.file = NoFile
(***************************************************************************)
(* The range of the classifier against the keys of the lookup (Spec).      *)
(***************************************************************************)
\* only entries of the source root have been scanned: the index is the one
\* scan_rom_directories built
SourceIndexOnly == \A v \in visited : v.root = RomDir

\* C26: detect_system_from_path yields one of the 15 platform tags or
\* UNKNOWN, so the keys of an index built by scan_rom_directories alone are
\* among them, and a game whose canonical tag is none of them is unmatched
\* on such an index.
C26_OutsideRangeUnmatched ==
    SourceIndexOnly =>
        /\ DOMAIN available_roms \subseteq Tags
        /\ \A k \in DOMAIN available_roms : \A i \in DOMAIN available_roms[k] :
               detect_system_from_path(available_roms[k][i]) = k
        /\ (CallDone /\ CallTarget \notin Tags) => last.result.file = NoFile

\* a PSP game named as the unclassified archive of the source root is
\* unmatched
C26_Witness ==
    /\ SourceIndexOnly
    /\ CallDone
    /\ last.system = "PlayStation Portable"
    /\ last.game_name = <<"p"," ","r">>
    /\ "UNKNOWN" \in DOMAIN available_roms
    /\ last.result.file = NoFile
(***************************************************************************)
(* process_game (l.1087-1154) and the loop of organize that calls it       *)
(* (l.674-675).  What the file system and the network answer is drawn from *)
(* Envs.  An exception raised in process_game leaves the loop: neither     *)
(* process_game nor the loop has a handler.                                *)
(***************************************************************************)
\* the games of the list: name, system label and rom_path ('' when the row
\* gives none)
GamePool ==
    { [name |-> <<"p"," ","r">>, system |-> "GB", rom_path |-> <<>>],
      [name |-> <<"p">>,   system |-> "GB", rom_path |-> <<>>],
      [name |-> <<"m"," ","x">>, system |-> "GB", rom_path |-> <<>>],
      [name |-> <<"m"," ","x">>, system |-> "GB", rom_path |-> <<"f">>] }

\* what scan_rom_directories returns when the source root holds
\* roms/GB/p r (U).gb
OrganizeSource ==
    LET src == Under(RomDir, <<<<"G","B">>, <<"p"," ","r"," ","(","U",")",".","g","b">>>>)
    IN  Indexed(EmptyIndex, detect_system_from_path(src), src)

\* the index after the scans found roms/GB/p r (U).gb and out/Roms/GB/p.gb
OrganizeIndex ==
    LET out == Under(OutputRoms, <<<<"G","B">>, <<"p",".","g","b">>>>)
    IN  Indexed(OrganizeSource, "GB", out)

\* the index when the source root is empty and the output holds
\* out/Roms/GB/p.gb
OutputOnlyIndex ==
    LET out == Under(OutputRoms, <<<<"G","B">>, <<"p",".","g","b">>>>)
    IN  Indexed(EmptyIndex, "GB", out)

\* the source index and the index after the output scan (l.661-665) of the
\* file systems of the runs
OrganizeScans ==
    { <<EmptyIndex, EmptyIndex>>, <<OrganizeSource, OrganizeIndex>>,
      <<EmptyIndex, OutputOnlyIndex>> }

\* self.stats (l.598-605), the counters process_game and the download update
ZeroStats == [found |-> 0, missing |-> 0, roms_downloaded |-> 0]

\* what the environment answers during one process_game call:
\*   mkdir     system_dir.mkdir (l.1097) succeeds or raises OSError
\*   provided  handle_specific_rom_path returns a file or None
\*   download  download_rom_from_myrient returns None, the file that already
\*             exists, or the file it downloaded
\*   dest_exists  dest_rom.exists() (l.1146)
\*   copy      stat/copy2/symlink_to (l.1147-1150) succeed or raise OSError
Envs ==
    [mkdir : {"ok", "raise"}, provided : {"file", "none"},
     download : {"none", "exists", "downloaded"}, dest_exists : BOOLEAN,
     copy : {"ok", "raise"}]

\* l.1115: rom_file.parent == system_dir, system_dir being roms_dir / muos_system
InSystemDir(rom_file, muos_system) ==
    /\ rom_file.abs = OutputRoms.abs
    /\ Len(rom_file.segs) = Len(OutputRoms.segs) + 2
    /\ SubSeq(rom_file.segs, 1, Len(OutputRoms.segs)) = OutputRoms.segs
    /\ Str(rom_file.segs[Len(OutputRoms.segs) + 1]) = muos_system

\* counters that an outcome leaves alone
FoundUncounted(stats) == stats
MissingUncounted(stats) == stats
Found(stats) == [stats EXCEPT !.found = @ + 1]
Missing(stats) == [stats EXCEPT !.missing = @ + 1]
Downloaded(stats) == [stats EXCEPT !.roms_downloaded = @ + 1]

\* l.1112-1154: process_game from the find_rom_for_game call on, result
\* being what the call returned
PlaceRom(result, muos_system, stats, download_missing, copy_roms, env) ==
    LET rom_file == result.file
        new_stats ==
            IF rom_file # NoFile /\ InSystemDir(rom_file, muos_system)
            THEN Found(stats)
            ELSE IF rom_file = NoFile
            THEN IF download_missing /\ env.download = "downloaded"
                 THEN Found(Downloaded(stats))
                 ELSE IF download_missing /\ env.download = "exists"
                 THEN Found(stats)
                 ELSE Missing(stats)
            ELSE Found(stats)
        raised ==
            /\ rom_file # NoFile
            /\ ~InSystemDir(rom_file, muos_system)
            /\ copy_roms /\ ~env.dest_exists /\ env.copy = "raise"
    IN  [raised |-> raised, stats |-> new_stats, roms |-> result.roms,
         called |-> TRUE, result |-> result, provided |-> "unused",
         steps |-> IF rom_file = NoFile /\ download_missing
                   THEN <<"find", "download">> ELSE <<"find">>]

\* l.1098-1099 (if rom_path): the steps of the call, after the attempt on
\* the provided path when the game has one
AfterProvided(game, out) ==
    IF game.rom_path # <<>>
    THEN [out EXCEPT !.steps = <<"provided">> \o @, !.provided = "none"]
    ELSE out

\* process_game with the index consulted before the provided path
ProcessGameIndexFirst(game, roms, stats, download_missing, copy_roms, env) ==
    LET muos_system == MuosSystem(game.system)
    IN  IF env.mkdir = "raise"
        THEN [raised |-> TRUE, stats |-> stats, roms |-> roms,
              called |-> FALSE, result |-> <<>>, provided |-> "unused",
              steps |-> <<>>]
        ELSE CHOOSE final \in
                 {IF result.file = NoFile /\ game.rom_path # <<>>
                     /\ env.provided = "file"
                  THEN [raised |-> FALSE, stats |-> Found(stats), roms |-> roms,
                        called |-> TRUE, result |-> result,
                        provided |-> "file", steps |-> <<"find", "provided">>]
                  ELSE PlaceRom(result, muos_system, stats, download_missing,
                                copy_roms, env) :
                      result \in {find_rom_for_game(game.name, game.system, roms)}} :
                 TRUE

\* l.1087-1154: whether the call raised, the counters and the index as it
\* leaves them, the find_rom_for_game call it made, if any, what
\* handle_specific_rom_path returned ("unused" when it was not called, for
\* want of a rom_path or after a failed mkdir), and the steps
\* it took in their order: "provided" for handle_specific_rom_path
\* (l.1101), "find" for find_rom_for_game (l.1112), "download" for
\* download_rom_from_myrient (l.1126)
process_game(game, roms, stats, download_missing, copy_roms, env) ==
    LET muos_system == MuosSystem(game.system)
    IN  IF env.mkdir = "raise"
        THEN [raised |-> TRUE, stats |-> stats, roms |-> roms,
              called |-> FALSE, result |-> <<>>, provided |-> "unused",
              steps |-> <<>>]
        ELSE IF game.rom_path # <<>> /\ env.provided = "file"
        THEN [raised |-> FALSE, stats |-> Found(stats), roms |-> roms,
              called |-> FALSE, result |-> <<>>, provided |-> "file",
              steps |-> <<"provided">>]
        ELSE AfterProvided(game,
                 CHOOSE out \in
                     {PlaceRom(result, muos_system, stats, download_missing,
                               copy_roms, env) :
                          result \in {find_rom_for_game(game.name, game.system, roms)}} :
                     TRUE)

\* l.1479-1488: the games save_report lists under "Missing ROMs", looked up
\* in the index of a new scan_rom_directories
MissingRoms(games_list, roms) ==
    SelectSeq(games_list,
              LAMBDA game : find_rom_for_game(game.name, game.system, roms).file = NoFile)

InitOrganize ==
    /\ \E scans \in OrganizeScans :
           /\ run \in {[pc |-> "loop", games_list |-> g, download_missing |-> d,
                        copy_roms |-> c, i |-> 0, stats |-> ZeroStats,
                        source_roms |-> scans[1], provided |-> "unused",
                        steps |-> <<>>,
                        report |-> <<>>] :
                           g \in StringsUpTo(GamePool, MaxGames), d \in BOOLEAN,
                           c \in BOOLEAN}
           /\ available_roms = scans[2]
    /\ phase = "match"
    /\ visited = {}
    /\ last = LastIdle
    /\ scan = ScanIdle
    /\ csv = CsvIdle
    /\ norm = NormIdle
    /\ det = DetIdle

\* one iteration of the loop l.674-675: process_game for the next game; an
\* exception it raises ends organize
ProcessGame ==
    /\ run.pc = "loop"
    /\ run.i < Len(run.games_list)
    /\ \E env \in Envs :
          \E out \in {process_game(run.games_list[run.i + 1], available_roms,
                                   run.stats, run.download_missing,
                                   run.copy_roms, env)} :
              /\ run' = [run EXCEPT !.i = @ + 1, !.stats = out.stats,
                                    !.steps = out.steps, !.provided = out.provided,
                                    !.pc = IF out.raised THEN "raised" ELSE "loop"]
              /\ available_roms' = out.roms
              /\ last' = IF out.called
                         THEN [pc |-> "called",
                               game_name |-> run.games_list[run.i + 1].name,
                               system |-> run.games_list[run.i + 1].system,
                               result |-> out.result]
                         ELSE last
    /\ UNCHANGED <<phase, visited, norm, det, csv, scan>>

\* the loop is over; organize goes on to the summary (l.677-701)
EndLoop ==
    /\ run.pc = "loop"
    /\ run.i = Len(run.games_list)
    /\ run' = [run EXCEPT !.pc = "done"]
    /\ UNCHANGED <<phase, available_roms, visited, last, norm, det, csv, scan>>

\* save_report (l.1461-1488) at the end of organize (l.701): the figures of
\* self.stats, then the games a new scan of the source roots has no file for
SaveReport ==
    /\ run.pc = "done"
    /\ \E listed \in {MissingRoms(run.games_list, run.source_roms)} :
           run' = [run EXCEPT !.pc = "reported", !.report = listed]
    /\ UNCHANGED <<phase, available_roms, visited, last, norm, det, csv, scan>>

NextOrganize == ProcessGame \/ EndLoop \/ SaveReport

SpecOrganize == InitOrganize /\ [][NextOrganize]_vars

\* C16: an exception raised while one entry is evaluated or placed is caught
\* and the entry skipped: no exception leaves the loop of organize, which
\* ends only when process_game has been called for every entry.
C16_BatchIsolation ==
    /\ run.pc # "raised"
    /\ run.pc = "done" => run.i = Len(run.games_list)

\* C19: find_rom_for_game and process_game leave the index as it was: no
\* step of the loop over the games changes available_roms.
C19_IndexReadOnly == [][available_roms' = available_roms]_vars

\* a game has been matched and placed and another one was not found in an
\* empty index
C19_Witness ==
    /\ run.pc = "loop"
    /\ run.i = 2
    /\ run.stats.found = 1
    /\ run.stats.missing = 1
    /\ last.pc = "called"
    /\ available_roms = OrganizeIndex

C19_WitnessEmpty ==
    /\ run.pc = "loop"
    /\ run.i = 1
    /\ last.pc = "called"
    /\ last.result.file = NoFile
    /\ available_roms = EmptyIndex
\* the step is a process_game call that returned normally
ReturnedNormally == run'.i = run.i + 1 /\ run'.pc = "loop"

\* C27: a process_game call that returns normally adds one to exactly one
\* of found and missing, and after it the two counters add up to the number
\* of games processed.
C27_OneCounterPerGame ==
    [][ReturnedNormally =>
           /\ \/ /\ run'.stats.found = run.stats.found + 1
                 /\ run'.stats.missing = run.stats.missing
              \/ /\ run'.stats.found = run.stats.found
                 /\ run'.stats.missing = run.stats.missing + 1
           /\ run'.stats.found + run'.stats.missing = run'.i]_vars

\* two games processed, one on each counter
C27_Witness ==
    /\ run.pc = "done"
    /\ run.i = 2
    /\ run.stats.found = 1
    /\ run.stats.missing = 1

\* two games, both counted as found, one of them downloaded
C27_WitnessDownload ==
    /\ run.pc = "done"
    /\ run.i = 2
    /\ run.stats.found = 2
    /\ run.stats.roms_downloaded = 1

C28_WitnessLocal ==
    /\ run.pc = "done"
    /\ run.stats.roms_downloaded = 1
    /\ run.stats.found = 2
    /\ available_roms = OrganizeIndex
\* C29: the games save_report lists under "Missing ROMs" are the games
\* process_game counted as missing, so the report lists as many games as
\* its "ROMs missing" figure says.
C29_ReportConsistent ==
    run.pc = "reported" => Len(run.report) = run.stats.missing
\* the game of the last process_game call, and the call got past mkdir
LastGame == run.games_list[run.i]
Processed == run.i > 0 /\ run.steps # <<>>

\* C30: for a game with a rom_path the provided path is resolved first; when
\* that gives a file, the index is not consulted and no download is
\* attempted; when it gives none, index matching follows; a download is
\* attempted exactly when download_missing is set and index matching
\* returned no file.
C30_HintPrecedence ==
    Processed =>
        /\ LastGame.rom_path # <<>> =>
               /\ run.steps[1] = "provided"
               /\ run.provided = "file" => run.steps = <<"provided">>
               /\ run.provided = "none" =>
                      Len(run.steps) >= 2 /\ run.steps[2] = "find"
        /\ LastGame.rom_path = <<>> => run.steps[1] = "find"
        /\ "download" \in Range(run.steps) <=>
               /\ "find" \in Range(run.steps)
               /\ run.download_missing
               /\ last.result.file = NoFile
        /\ "download" \in Range(run.steps) => run.steps[Len(run.steps)] = "download"

\* the provided path gave nothing, the index had no file, the download ran
C30_Witness ==
    /\ Processed
    /\ LastGame.rom_path # <<>>
    /\ run.provided = "none"
    /\ run.steps = <<"provided", "find", "download">>

\* the provided path gave the file: nothing else was tried, although the
\* run downloads missing games
C30_WitnessProvided ==
    /\ Processed
    /\ run.download_missing
    /\ run.provided = "file"
    /\ run.steps = <<"provided">>
\* the file lies below the Roms directory of the output
InOutput(f) ==
    /\ f.abs = OutputRoms.abs
    /\ Len(f.segs) > Len(OutputRoms.segs)
    /\ SubSeq(f.segs, 1, Len(OutputRoms.segs)) = OutputRoms.segs

\* every file of the index is filed under the tag the classifier gives it
KeyedByDetect(roms) ==
    \A T \in DOMAIN roms : \A i \in DOMAIN roms[T] :
        detect_system_from_path(roms[T][i]) = T

\* a file of a source root is filed under the tag the classifier gives it,
\* a file of the output directory under the name of its system directory
KeyedByOrigin(roms) ==
    \A T \in DOMAIN roms : \A i \in DOMAIN roms[T] :
        LET f == roms[T][i]
        IN  IF InOutput(f)
            THEN T = Str(f.segs[Len(OutputRoms.segs) + 1])
            ELSE T = detect_system_from_path(f)

\* every group of before is still there in after, as the beginning of its list
GrowsAtEnd(before, after) ==
    \A T \in DOMAIN before :
        /\ T \in DOMAIN after
        /\ Len(before[T]) <= Len(after[T])
        /\ SubSeq(after[T], 1, Len(before[T])) = before[T]

\* C17 as stated: whenever the index changes while it is built from the
\* source roots and merged with the output directory, every file stored
\* under a key T is classified T, and the groups keep insertion order.
C17_GroupedByDetect ==
    [][KeyedByDetect(available_roms') /\ GrowsAtEnd(available_roms, available_roms')]_vars

\* C17, amended: a file found below a source root is stored under the tag
\* the classifier gives it, a file found in the output directory under the
\* name of the system directory that holds it, whatever the classifier says
\* of it; every group keeps insertion order.
C17_Grouping ==
    [][KeyedByOrigin(available_roms') /\ GrowsAtEnd(available_roms, available_roms')]_vars

C17_Witness ==
    /\ phase = "match"
    /\ Get(available_roms, "GB") =
           << Under(RomDir, <<<<"G","B">>, <<"p",".","g","b">>>>), Under(OutputRoms, <<<<"G","B">>, <<"p",".","g","b">>>>) >>
    /\ Get(available_roms, "PSP") = << Under(OutputRoms, <<<<"P","S","P">>, <<"p"," ","r",".","i","s","o">>>>) >>
(***************************************************************************)
(* read_csv (l.703-726) on the rows csv.DictReader yields: a row maps      *)
(* every column of the header to the text of its cell, or to None when the *)
(* line is too short to have the cell.                                     *)
(***************************************************************************)
\* the value of a cell a short line lacks (DictReader's restval)
NoneCell == <<"None">>

\* the headers of the files read
CsvHeaders ==
    { {"Game Name", "System"},
      {"Game", "Name", "system"},
      {"name", "System", "system"},
      {"Title", "System"} }

\* the cells a column can hold
ColumnCells(column) ==
    CASE column \in {"Game Name", "Game", "name", "Title"} ->
             {<<>>, <<"a">>, <<"b">>, NoneCell}
      [] column = "Name" -> {<<>>, <<"b">>}
      [] column = "System" -> {<<>>, <<"s">>, NoneCell}
      [] column = "system" -> {<<>>, <<"t">>}

CsvRows(header) ==
    {row \in [header -> UNION {ColumnCells(c) : c \in header}] :
        \A c \in header : row[c] \in ColumnCells(c)}

\* l.720 with or where the code has and
KeepRowEither(game) ==
    \/ game.name \notin {<<>>, NoneCell}
    \/ game.system \notin {<<>>, NoneCell}

\* row.get(key, default)
RowGet(row, key, default) == IF key \in DOMAIN row THEN row[key] ELSE default

\* l.716-722
GameOfRow(row) ==
    [name |-> RowGet(row, "Game Name", RowGet(row, "Game",
                  RowGet(row, "Name", RowGet(row, "name", <<>>)))),
     system |-> RowGet(row, "System", RowGet(row, "system", <<>>)),
     category |-> RowGet(row, "Category", RowGet(row, "Category/Set", <<>>)),
     notes |-> RowGet(row, "Notes", <<>>),
     rom_path |-> RowGet(row, "rom_path", RowGet(row, "ROM Path",
                      RowGet(row, "Rom Path", RowGet(row, "path", <<>>))))]

\* l.723: if game['name'] and game['system'] (None and '' are false)
KeepRow(game) ==
    /\ game.name \notin {<<>>, NoneCell}
    /\ game.system \notin {<<>>, NoneCell}

\* l.705-726: the loop over the rows
RECURSIVE ReadRows(_, _)
ReadRows(rows, games) ==
    IF rows = <<>> THEN games
    ELSE LET game == GameOfRow(Head(rows))
         IN  ReadRows(Tail(rows), IF KeepRow(game) THEN Append(games, game) ELSE games)

read_csv(rows) == ReadRows(rows, <<>>)

InitCsv ==
    /\ csv \in {[pc |-> "start", rows |-> rows, games_list |-> <<>>] :
                   rows \in UNION {StringsUpTo(CsvRows(header), MaxRows) :
                                      header \in CsvHeaders}}
    /\ norm = NormIdle
    /\ det = DetIdle
    /\ phase = "idle"
    /\ available_roms = EmptyIndex
    /\ visited = {}
    /\ last = LastIdle
    /\ scan = ScanIdle
    /\ run = RunIdle

ReadCsv ==
    /\ csv.pc = "start"
    /\ csv' = [csv EXCEPT !.pc = "done", !.games_list = read_csv(csv.rows)]
    /\ UNCHANGED <<norm, det, phase, available_roms, visited, last, run, scan>>

NextCsv == ReadCsv

SpecCsv == InitCsv /\ [][NextCsv]_vars

\* the cell of the first of columns that the row has, '' when it has none
FirstOf(row, columns) ==
    LET here == SelectSeq(columns, LAMBDA c : c \in DOMAIN row)
    IN  IF here = <<>> THEN <<>> ELSE row[here[1]]
RowName(row) == FirstOf(row, <<"Game Name", "Game", "Name", "name">>)
RowSystem(row) == FirstOf(row, <<"System", "system">>)
IsText(v) == v # NoneCell /\ v # <<>>
\* the rows read_csv is to keep, by position
KeptRows == {i \in DOMAIN csv.rows :
                IsText(RowName(csv.rows[i])) /\ IsText(RowSystem(csv.rows[i]))}

\* C20: read_csv keeps a row exactly when its name and its system both
\* resolve to non-empty strings; the other rows are skipped and the run goes
\* on; the entries kept are in the order of their rows.
C20_IngestionFilter ==
    csv.pc = "done" =>
        /\ Len(csv.games_list) = Cardinality(KeptRows)
        /\ \A i \in KeptRows :
              LET game == csv.games_list[Cardinality({k \in KeptRows : k <= i})]
              IN  /\ game.name = RowName(csv.rows[i])
                  /\ game.system = RowSystem(csv.rows[i])

\* a row without a system is skipped and the row after it is kept
C20_Witness ==
    /\ csv.pc = "done"
    /\ csv.rows = << [c \in {"Game Name", "System"} |->
                         IF c = "System" THEN <<>> ELSE <<"a">>],
                     [c \in {"Game Name", "System"} |->
                         IF c = "System" THEN <<"s">> ELSE <<"b">>] >>
    /\ Len(csv.games_list) = 1
    /\ csv.games_list[1].name = <<"b">>

\* two rows kept, in the order of the file
C20_WitnessOrder ==
    /\ csv.pc = "done"
    /\ Len(csv.rows) = 2
    /\ Len(csv.games_list) = 2
    /\ csv.games_list[1].name = <<"b">>
    /\ csv.games_list[2].name = <<"a">>
(***************************************************************************)
(* SpecScan: scan_rom_directories (l.749-784) over at most MaxRoots roots, *)
(* each with a fixed content; a root may not exist.  rglob yields the      *)
(* entries of a root in any order; the roots are taken in list order.      *)
(***************************************************************************)
MoreDir == [abs |-> FALSE, segs |-> << <<"m","o","r","e">> >>]
GoneDir == [abs |-> FALSE, segs |-> << <<"g","o","n","e">> >>]

\* what a root can contain: nothing; a ROM in a platform folder next to the
\* folder itself; an archive next to a text file; the same ROM 6 and 7
\* components below the root
RootContents ==
    { {},
      { [rel |-> << <<"G","B">>, <<"p",".","g","b">> >>, is_file |-> TRUE],
        [rel |-> << <<"G","B">> >>, is_file |-> FALSE] },
      { [rel |-> << <<"p"," ","r",".","z","i","p">> >>, is_file |-> TRUE],
        [rel |-> << <<"n",".","t","x","t">> >>, is_file |-> TRUE] },
      { [rel |-> << <<"a">>, <<"b">>, <<"c">>, <<"d">>, <<"e">>, <<"p",".","g","b">> >>, is_file |-> TRUE],
        [rel |-> << <<"a">>, <<"b">>, <<"c">>, <<"d">>, <<"e">>, <<"f">>, <<"p",".","g","b">> >>, is_file |-> TRUE] } }

\* the roots of self.rom_dirs: two that exist, with a content, and one that
\* does not exist
RootPool ==
    {[path |-> p, exists |-> TRUE, entries |-> c] :
        p \in {RomDir, MoreDir}, c \in RootContents}
      \cup {[path |-> GoneDir, exists |-> FALSE, entries |-> {}]}

\* lists of at most MaxRoots roots with different paths
RootLists ==
    {dirs \in StringsUpTo(RootPool, MaxRoots) :
        /\ dirs # <<>>
        /\ \A i, j \in DOMAIN dirs : i # j => dirs[i].path # dirs[j].path}

\* l.755-757 with break where the code has continue: the loop over the
\* roots ends at the first root that does not exist
RootAfterMissingBreak(k, n) == n + 1

\* l.755-757: continue; the loop goes on with the next root
RootAfterMissing(k, n) == k + 1

InitScan ==
    /\ scan \in {[pc |-> "loop", rom_dirs |-> dirs, k |-> 1] : dirs \in RootLists}
    /\ phase = "scan_src"
    /\ available_roms = EmptyIndex
    /\ visited = {}
    /\ last = LastIdle
    /\ csv = CsvIdle
    /\ run = RunIdle
    /\ norm = NormIdle
    /\ det = DetIdle

\* the root the loop l.754 is at
ScanRoot == scan.rom_dirs[scan.k]
InRootLoop == phase = "scan_src" /\ scan.pc = "loop" /\ scan.k <= Len(scan.rom_dirs)

\* one iteration of the loop over rglob('*') (l.761-776) in the current root
ScanDirEntry(e) ==
    /\ InRootLoop
    /\ ScanRoot.exists
    /\ e \in ScanRoot.entries
    /\ [root |-> ScanRoot.path, entry |-> e] \notin visited
    /\ visited' = visited \cup {[root |-> ScanRoot.path, entry |-> e]}
    /\ LET rom_file == Under(ScanRoot.path, e.rel)
       IN  available_roms' =
               IF ~TooDeep(e.rel) /\ e.is_file /\ is_rom_file(rom_file)
               THEN Indexed(available_roms, detect_system_from_path(rom_file), rom_file)
               ELSE available_roms
    /\ UNCHANGED <<phase, last, norm, det, csv, run, scan>>

\* rglob of the current root is exhausted (l.761); the next root is taken
NextRoot ==
    /\ InRootLoop
    /\ ScanRoot.exists
    /\ \A e \in ScanRoot.entries : [root |-> ScanRoot.path, entry |-> e] \in visited
    /\ scan' = [scan EXCEPT !.k = @ + 1]
    /\ UNCHANGED <<phase, available_roms, visited, last, norm, det, csv, run>>

\* the current root does not exist: warning and continue (l.755-757)
SkipMissingRoot ==
    /\ InRootLoop
    /\ ~ScanRoot.exists
    /\ scan' = [scan EXCEPT !.k = RootAfterMissing(scan.k, Len(scan.rom_dirs))]
    /\ UNCHANGED <<phase, available_roms, visited, last, norm, det, csv, run>>

\* the loop over the roots is over: scan_rom_directories returns (l.784)
EndRoots ==
    /\ phase = "scan_src"
    /\ scan.pc = "loop"
    /\ scan.k > Len(scan.rom_dirs)
    /\ scan' = [scan EXCEPT !.pc = "done"]
    /\ phase' = "scan_out"
    /\ UNCHANGED <<available_roms, visited, last, norm, det, csv, run>>

NextScan ==
    \/ \E e \in UNION RootContents : ScanDirEntry(e)
    \/ NextRoot
    \/ SkipMissingRoot
    \/ EndRoots

SpecScan == InitScan /\ [][NextScan]_vars

\* the files of the index
IndexFiles(roms) == UNION {Range(roms[T]) : T \in DOMAIN roms}
\* the roots of the list that exist
ExistingRoots == {i \in DOMAIN scan.rom_dirs : scan.rom_dirs[i].exists}
\* the files a scan of root i alone puts in its index
FilesOfRoot(i) ==
    {Under(scan.rom_dirs[i].path, e.rel) : e \in
        {e \in scan.rom_dirs[i].entries :
            /\ e.is_file
            /\ is_rom_file(Under(scan.rom_dirs[i].path, e.rel))
            /\ ~TooDeep(e.rel)}}
\* the position of file f in its group
PlaceOf(f) ==
    LET T == detect_system_from_path(f)
    IN  CHOOSE n \in DOMAIN available_roms[T] : available_roms[T][n] = f

\* C21: a root that does not exist is skipped and the roots after it are
\* still scanned: when scan_rom_directories returns, the index holds, each
\* once and under its tag, exactly the ROM files of the roots that exist,
\* those of an earlier root before those of a later one, which is the index
\* a scan of the existing roots alone builds.
C21_MissingRootSkipped ==
    scan.pc = "done" =>
        /\ IndexFiles(available_roms) = UNION {FilesOfRoot(i) : i \in ExistingRoots}
        /\ \A T \in DOMAIN available_roms :
              /\ Len(available_roms[T]) = Cardinality(Range(available_roms[T]))
              /\ \A n \in DOMAIN available_roms[T] :
                    detect_system_from_path(available_roms[T][n]) = T
        /\ \A i, j \in ExistingRoots : i < j =>
              \A f \in FilesOfRoot(i), g \in FilesOfRoot(j) :
                  detect_system_from_path(f) = detect_system_from_path(g)
                      => PlaceOf(f) < PlaceOf(g)

\* the missing root comes first and the ROM of the root after it is indexed
C21_Witness ==
    /\ scan.pc = "done"
    /\ Len(scan.rom_dirs) = 2
    /\ ~scan.rom_dirs[1].exists
    /\ Get(available_roms, "GB") = << Under(scan.rom_dirs[2].path, << <<"G","B">>, <<"p",".","g","b">> >>) >>

\* C22: no file with more than 6 components below its scan root is ever in
\* the index, and when scan_rom_directories returns every ROM file with at
\* most 6 components below a root that exists is in it.
C22_BoundedDepth ==
    /\ \A f \in IndexFiles(available_roms) : Len(f.segs) - 1 <= 6
    /\ scan.pc = "done" =>
          \A i \in ExistingRoots : \A e \in scan.rom_dirs[i].entries :
              LET f == Under(scan.rom_dirs[i].path, e.rel)
              IN  (e.is_file /\ is_rom_file(f) /\ Len(e.rel) <= 6)
                      => f \in IndexFiles(available_roms)

\* of the same ROM 6 and 7 components deep only the first is indexed
C22_Witness ==
    /\ scan.pc = "done"
    /\ Len(scan.rom_dirs) = 1
    /\ Cardinality(visited) = 2
    /\ IndexFiles(available_roms) =
           { Under(RomDir, << <<"a">>, <<"b">>, <<"c">>, <<"d">>, <<"e">>, <<"p",".","g","b">> >>) }
(***************************************************************************)
(* SpecNormForm: normalize_name on every string of at most MaxLen          *)
(* characters over FormAlphabet: the eight characters l.986-988 replace,   *)
(* letters of both cases that spell a stop word, a space and a tab.        *)
(***************************************************************************)
FormAlphabet ==
    {":", "-", "_", "'", "&", "!", ".", ",", "T", "o", " ", "\t"}

InitNormForm ==
    /\ norm \in {[pc |-> "start", input |-> s, once |-> <<>>, twice |-> <<>>] :
                    s \in StringsUpTo(FormAlphabet, MaxLen)}
    /\ det = DetIdle
    /\ phase = "idle"
    /\ available_roms = EmptyIndex
    /\ visited = {}
    /\ last = LastIdle
    /\ scan = ScanIdle
    /\ csv = CsvIdle
    /\ run = RunIdle

NextNormForm == NormalizeOnce

SpecNormForm == InitNormForm /\ [][NextNormForm]_vars

\* the stop words the claim lists
ListedStopWords ==
    { <<"t","h","e">>, <<"a">>, <<"a","n">>, <<"o","f">>, <<"i","n">>, <<"o","n">>, <<"a","t">>, <<"t","o">>, <<"f","o","r">> }

\* w stands in r as a whole token: from position i, between spaces or ends
IsTokenAt(r, w, i) ==
    /\ i + Len(w) - 1 <= Len(r)
    /\ SubSeq(r, i, i + Len(w) - 1) = w
    /\ i = 1 \/ IsSpace(r[i - 1])
    /\ i + Len(w) - 1 = Len(r) \/ IsSpace(r[i + Len(w)])

C23_WitnessSpaces ==
    /\ norm.pc = "once"
    /\ norm.input = <<"o","-","\t","T">>
    /\ norm.once = <<"o"," ","t">>
(***************************************************************************)
(* SpecEmptyTitle: find_rom_for_game for names and file stems that         *)
(* normalize to the empty string, on a PSP group of at most MaxFiles files *)
(* of the output directory in every order.                                 *)
(***************************************************************************)
\* files of out/Roms/PSP: p.gb is classified GB (not eligible for PSP), the
\* stems of (U).iso and the.iso normalize to the empty string
EmptyTitleFiles ==
    { Under(OutputRoms, << <<"P","S","P">>, <<"p",".","g","b">> >>),
      Under(OutputRoms, << <<"P","S","P">>, <<"p",".","i","s","o">> >>),
      Under(OutputRoms, << <<"P","S","P">>, <<"(","U",")",".","i","s","o">> >>),
      Under(OutputRoms, << <<"P","S","P">>, <<"t","h","e",".","i","s","o">> >>) }

\* "The" and "(U)" normalize to the empty string
EmptyTitleNames == { <<"T","h","e">>, <<"(","U",")">>, <<"p">>, <<"x">> }

InitEmptyTitle ==
    /\ available_roms \in
           {[k \in {"PSP"} |-> files] :
               files \in {fs \in StringsUpTo(EmptyTitleFiles, MaxFiles) :
                             \A i, j \in DOMAIN fs : i # j => fs[i] # fs[j]}}
    /\ phase = "match"
    /\ visited = {}
    /\ last = LastIdle
    /\ scan = ScanIdle
    /\ csv = CsvIdle
    /\ run = RunIdle
    /\ norm = NormIdle
    /\ det = DetIdle

NextEmptyTitle ==
    \/ \E game_name \in EmptyTitleNames : FindRom(game_name, "PlayStation Portable")
    \/ NextGame

SpecEmptyTitle == InitEmptyTitle /\ [][NextEmptyTitle]_vars

\* the scores of the pairs the call scored are as the claim gives them for
\* empty titles, and the word tier is reached with two non-empty word sets
EmptyTitleScores ==
    \A n \in DOMAIN last.result.log :
        LET entry == last.result.log[n]
            g == entry.game_normalized
            r == entry.rom_normalized
        IN  /\ (g = <<>> /\ r # <<>>) => Eq(entry.score, <<4, 5>>)
            /\ (r = <<>> /\ g # <<>>) => Eq(entry.score, <<7, 10>>)
            /\ (g = <<>> /\ r = <<>>) => Eq(entry.score, One)
            /\ (g # r /\ ~IsSubstring(g, r) /\ ~IsSubstring(r, g)) =>
                   Range(Split(g)) # {} /\ Range(Split(r)) # {}

\* the eligible candidates of the call, decided on the classifier alone
EligibleFiles ==
    SelectSeq(CallCandidates,
              LAMBDA f : detect_system_from_path(f) \in {CallTarget, "UNKNOWN"})
\* the eligible candidates whose stem normalizes to the empty string
EmptyStemFiles ==
    SelectSeq(EligibleFiles, LAMBDA f : normalize_name(PathStem(f)) = <<>>)
\* the name of the call normalizes to the empty string
EmptyQuery == CallDone /\ normalize_name(last.game_name) = <<>>

\* C24 as stated: an empty query against a non-empty candidate scores 0.8,
\* a non-empty query against an empty candidate 0.7, two empty titles 1.0;
\* the word tier is reached only with two non-empty word sets; an entry
\* whose name normalizes to the empty string gets the first eligible
\* candidate.
C24_EmptyGetsFirst ==
    CallDone =>
        /\ EmptyTitleScores
        /\ EmptyQuery =>
               last.result.file = IF EligibleFiles = <<>> THEN NoFile
                                  ELSE EligibleFiles[1]

\* C24, amended: the scores as stated; an entry whose name normalizes to
\* the empty string gets the first eligible candidate whose stem normalizes
\* to the empty string too (score 1.0) when there is one, and the first
\* eligible candidate (score 0.8) otherwise.
C24_EmptyTitles ==
    CallDone =>
        /\ EmptyTitleScores
        /\ EmptyQuery =>
               last.result.file = IF EligibleFiles = <<>> THEN NoFile
                                  ELSE IF EmptyStemFiles # <<>> THEN EmptyStemFiles[1]
                                  ELSE EligibleFiles[1]

\* the query is empty, the first eligible candidate is p.iso, and the file
\* returned is the later (U).iso
C24_Witness ==
    /\ CallDone
    /\ last.game_name = <<"T","h","e">>
    /\ available_roms["PSP"] = << Under(OutputRoms, << <<"P","S","P">>, <<"p",".","g","b">> >>),
                                  Under(OutputRoms, << <<"P","S","P">>, <<"p",".","i","s","o">> >>),
                                  Under(OutputRoms, << <<"P","S","P">>, <<"(","U",")",".","i","s","o">> >>) >>
    /\ last.result.file = Under(OutputRoms, << <<"P","S","P">>, <<"(","U",")",".","i","s","o">> >>)

\* a non-empty query against an empty stem: 0.7, accepted
C24_WitnessEmptyStem ==
    /\ CallDone
    /\ last.game_name = <<"p">>
    /\ available_roms["PSP"] = << Under(OutputRoms, << <<"P","S","P">>, <<"t","h","e",".","i","s","o">> >>) >>
    /\ last.result.file = Under(OutputRoms, << <<"P","S","P">>, <<"t","h","e",".","i","s","o">> >>)
====
